---- MODULE Spec2Model ----
(***************************************************************************)
(* Viewport-driven shop search of boba-seeker: the HomePage controllers    *)
(* (three revisions of pages/HomePage.tsx) together with the Map component *)
(* that feeds them viewport events and renders the "Search This Area"      *)
(* control.                                                                *)
(*                                                                         *)
(*   variant = "region"   HomePage with nearby search and region detection *)
(*                        (src/unnamed/part_008, lines 333-537) mounted    *)
(*                        with the Map of src/unnamed/part_003             *)
(*   variant = "bounds"   HomePage with bounds search and server-side      *)
(*                        brand filter (src/unnamed/part_008, lines 1-168) *)
(*                        mounted with frontend/src/components/Map.tsx     *)
(*   variant = "country"  HomePage that preloads a whole country           *)
(*                        (src/unnamed/part_007)                           *)
(*                                                                         *)
(* Latitudes, longitudes and kilometres are fixed-point integers in        *)
(* hundredths (25.03 degrees is 2503, 10 km is 1000).  The viewports       *)
(* enumerated below have even sums and spans, so the halvings the code     *)
(* performs are exact.                                                     *)
(*                                                                         *)
(* One action is one run-to-completion step of the browser's event loop:   *)
(* an event handler up to its first await, or the continuation of an       *)
(* await together with the effects React runs for the state it changed.    *)
(***************************************************************************)
EXTENDS Integers, Sequences, FiniteSets, TLC

VARIABLES
    variant,            \* which HomePage revision is mounted
    selectedShop,       \* the shop picked on the map or in the list, or Null
    sheet,              \* BottomSheet: sheetState and its drag refs
    contact,            \* ContactPage: status, formData, requests in flight
    shops,              \* shops / allShops: the fetched result set
    brands,             \* ids of the brand catalog held
    selectedBrands,     \* number[] selection (region and country revisions)
    brandFilters,       \* Set<number> selection (bounds revision)
    selectedRegion,     \* active region code, "" = all (region revision)
    countryFilter,      \* 'all' | 'TW' | 'US' (country revision)
    loading,
    error,
    hasSearched,        \* bounds revision only
    mapBounds,
    showSearchButton,
    hasMovedRef,        \* Map of part_003
    mapReady,           \* Map.tsx
    userHasInteracted,  \* Map.tsx
    locating,           \* Map: a locate-me request awaits the provider
    mapGeo,             \* Map's own start-up getCurrentPosition: pending/done
    flying,             \* Map: a flyTo is under way, its moveend is to come
    searchQuery,        \* FilterPanel: text of the brand search input
    geo,                \* HomePage's getCurrentPosition request: pending/done
    inflight,           \* shop requests awaiting their response
    brandReqs,          \* regions whose getBrands request awaits its response
    issued,             \* number of shop requests issued so far
    resultOf,           \* history: issue number of the request that wrote shops
    latestDone,         \* history: highest issue number answered successfully
    ev                  \* history: the step just taken, its argument and
                        \* what it showed the user

vars == <<variant, sheet, contact, selectedShop, locating, mapGeo, flying, searchQuery, shops, brands, selectedBrands, brandFilters, selectedRegion,
          countryFilter, loading, error, hasSearched, mapBounds,
          showSearchButton, hasMovedRef, mapReady, userHasInteracted, geo,
          inflight, brandReqs, issued, resultOf, latestDone, ev>>

-----------------------------------------------------------------------------
(* Bounds of the model *)

MaxFetches == 2

\* longest shop list the brand filter is applied to
MaxShops == 3

\* longest brand search query typed into the panel
MaxQuery == 2

-----------------------------------------------------------------------------
(* Values *)

Null == [null |-> TRUE]

NoError == "null"
ErrLoad == "Failed to load shops."
ErrSearch == "Failed to search this area."
ErrBackend == "Failed to load shops. Make sure the backend is running."

\* the text locateUser passes to alert()
LocateAlert == "Could not get your location."

DEFAULT_CENTER == [lat |-> 2503, lng |-> 12150]

NEARBY_RADIUS_KM == 1000

MIN_RADIUS_KM == 500

KM_PER_DEGREE == 111

PAGE_SIZE == 5000

REGIONS == {"", "TW", "SG", "US"}

COUNTRIES == {"all", "TW", "US"}

\* Brand ids the backend knows
BrandIds == {1, 2}

\* A shop without a brand association: brand_id is undefined, written NoBrand
NoBrand == -1

MkShop(i, b) == [id |-> i, brand_id |-> b]

\* Shop lists a backend answer can carry
Responses ==
    { <<>>,
      <<MkShop(1, 1), MkShop(2, NoBrand)>>,
      <<MkShop(3, 2)>> }

\* Brand ids of the catalog and of the shops the brand filter is applied to;
\* Brand.id and Shop.brand_id are numbers, 0 included
FilterBrandIds == {0, 1}

\* Shop lists of the given length: the i-th shop has id i and any brand
\* association
ShopListsOfLen(n) ==
    { [i \in 1..n |-> MkShop(i, f[i])] :
        f \in [1..n -> FilterBrandIds \cup {NoBrand}] }

\* Shop lists the brand filter is applied to
ShopLists == UNION { ShopListsOfLen(n) : n \in 0..MaxShops }

\* Viewports the map can settle on
BoundsSet ==
    { [minLat |-> 2500, maxLat |-> 2506, minLng |-> 12146, maxLng |-> 12154],
      [minLat |-> 0, maxLat |-> 1000, minLng |-> -16000, maxLng |-> -15000] }

\* Region buttons the user presses (a subset of REGIONS)
RegionChoices == {"", "SG"}

\* Positions the geolocation provider can report
Positions ==
    { [lat |-> 3777, lng |-> -12242],
      [lat |-> 5150, lng |-> -12] }

\* GET /api/brands?region=: the catalog the backend returns for a region
BrandsOfRegion(r) ==
    CASE r = "TW" -> {1}
      [] r = "SG" -> {2}
      [] r = "US" -> {}
      [] OTHER -> {1, 2}

\* mutant: the rough USA box reaches east across Taiwan
REGION_BOXES_Overlap ==
    << [code |-> "TW", minLat |-> 2150, maxLat |-> 2650,
        minLng |-> 11950, maxLng |-> 12250],
       [code |-> "SG", minLat |-> 110, maxLat |-> 150,
        minLng |-> 10360, maxLng |-> 10410],
       [code |-> "US", minLat |-> 2400, maxLat |-> 5000,
        minLng |-> -12500, maxLng |-> 12250] >>

\* The bounding boxes detectRegion tests, in the order it tests them
REGION_BOXES ==
    << [code |-> "TW", minLat |-> 2150, maxLat |-> 2650,
        minLng |-> 11950, maxLng |-> 12250],
       [code |-> "SG", minLat |-> 110, maxLat |-> 150,
        minLng |-> 10360, maxLng |-> 10410],
       [code |-> "US", minLat |-> 2400, maxLat |-> 5000,
        minLng |-> -12500, maxLng |-> -6600] >>

\* Coordinates on and next to every edge of the boxes
ProbeLats == {109, 110, 150, 151, 2149, 2150, 2399, 2400, 2650, 2651, 5000, 5001}

ProbeLngs ==
    {-12501, -12500, -6600, -6599, 10359, 10360, 10410, 10411, 11949, 11950,
     12250, 12251}

\* Edges of the viewports the bounds arithmetic is probed with: all even, so
\* the halvings are exact; they include degenerate, tiny and world-wide boxes
ProbeLatEdges == {-9000, 0, 2, 2506}

ProbeLngEdges == {-18000, 12150}

\* map.getBounds(): south <= north and west <= east
ProbeBounds ==
    { b \in [minLat : ProbeLatEdges, maxLat : ProbeLatEdges,
             minLng : ProbeLngEdges, maxLng : ProbeLngEdges] :
        b.minLat <= b.maxLat /\ b.minLng <= b.maxLng }

\* Positions the geolocation provider reports when the classifier is probed
ProbePositions == [lat : ProbeLats, lng : ProbeLngs]

-----------------------------------------------------------------------------
(* Pure functions *)

Max(a, b) == IF a >= b THEN a ELSE b

\* the point lies in the box, edges included
InBox(lat, lng, box) ==
    /\ lat >= box.minLat /\ lat <= box.maxLat
    /\ lng >= box.minLng /\ lng <= box.maxLng

\* mutant: a point outside every box is taken to be in Taiwan
detectRegion_DefaultTW(lat, lng) ==
    IF lat >= 2150 /\ lat <= 2650 /\ lng >= 11950 /\ lng <= 12250 THEN "TW"
    ELSE IF lat >= 110 /\ lat <= 150 /\ lng >= 10360 /\ lng <= 10410 THEN "SG"
    ELSE IF lat >= 2400 /\ lat <= 5000 /\ lng >= -12500 /\ lng <= -6600 THEN "US"
    ELSE "TW"

detectRegion(lat, lng) ==
    IF lat >= 2150 /\ lat <= 2650 /\ lng >= 11950 /\ lng <= 12250 THEN "TW"
    ELSE IF lat >= 110 /\ lat <= 150 /\ lng >= 10360 /\ lng <= 10410 THEN "SG"
    ELSE IF lat >= 2400 /\ lat <= 5000 /\ lng >= -12500 /\ lng <= -6600 THEN "US"
    ELSE ""

\* mutant: half the latitude span is taken for the centre latitude
centerLat_HalfSpan(b) == (b.maxLat - b.minLat) \div 2

centerLat(b) == (b.minLat + b.maxLat) \div 2

centerLng(b) == (b.minLng + b.maxLng) \div 2

latDiff(b) == (b.maxLat - b.minLat) \div 2

radiusKm(b) == latDiff(b) * KM_PER_DEGREE

\* mutant: the computed radius is sent without the 5 km floor
NearbyQueryOf_NoClamp(b) ==
    [lat |-> centerLat(b), lng |-> centerLng(b), radius_km |-> radiusKm(b)]

\* The query handleSearchArea (region revision) derives from the viewport
NearbyQueryOf(b) ==
    [lat |-> centerLat(b), lng |-> centerLng(b),
     radius_km |-> Max(radiusKm(b), MIN_RADIUS_KM)]

\* mutant: the brand is appended whether or not it is already selected
ToggleInSeq_AlwaysAppend(prev, brandId) ==
    Append(prev, brandId)

\* prev.includes(id) ? prev.filter(x => x !== id) : [...prev, id]
ToggleInSeq(prev, brandId) ==
    IF \E i \in 1..Len(prev) : prev[i] = brandId
    THEN LET Keep(x) == x # brandId IN SelectSeq(prev, Keep)
    ELSE Append(prev, brandId)

\* next.has(id) ? next.delete(id) : next.add(id)
ToggleInSet(prev, brandId) ==
    IF brandId \in prev THEN prev \ {brandId} ELSE prev \cup {brandId}

\* Array.prototype.includes
Includes(arr, x) == \E i \in 1..Len(arr) : arr[i] = x

\* JavaScript truthiness of shop.brand_id: undefined and 0 are falsy
Truthy(brand_id) == brand_id # NoBrand /\ brand_id # 0

\* mutant: an empty selection is applied like any other and matches nothing
filteredShops_EmptyMatchesNothing ==
    LET Match(shop) == /\ Truthy(shop.brand_id)
                       /\ Includes(selectedBrands, shop.brand_id)
    IN  SelectSeq(shops, Match)

\* mutant: shops without a brand pass the filter
filteredShops_KeepUnbranded ==
    IF Len(selectedBrands) = 0
    THEN shops
    ELSE LET Match(shop) == \/ ~Truthy(shop.brand_id)
                            \/ Includes(selectedBrands, shop.brand_id)
         IN  SelectSeq(shops, Match)

\* HomePage.filteredShops: useMemo over [shops, selectedBrands]
filteredShops ==
    IF Len(selectedBrands) = 0
    THEN shops
    ELSE LET Match(shop) == /\ Truthy(shop.brand_id)
                            /\ Includes(selectedBrands, shop.brand_id)
         IN  SelectSeq(shops, Match)

-----------------------------------------------------------------------------
(* Initial states: the component right after its first render and mount     *)
(* effects.                                                                 *)

\* BottomSheet after its first render: useState('peek'), isDragging false
SheetInit ==
    [sheetState |-> "peek", isDragging |-> FALSE, dragStartHeight |-> 0,
     offsetHeight |-> 0]

\* ContactPage: the form's defaults
FormDefaults ==
    [name |-> <<>>, email |-> <<>>, type |-> "suggestion", message |-> <<>>]

\* ContactPage after its first render
ContactInit ==
    [status |-> "idle", formData |-> FormDefaults, inflight |-> <<>>]

Ev(op, arg) == ev' = [op |-> op, arg |-> arg]

Request(n, by, kind, q) == [token |-> n, by |-> by, kind |-> kind, q |-> q]

InitCommon ==
    /\ sheet = SheetInit
    /\ contact = ContactInit
    /\ selectedShop = Null
    /\ shops = <<>>
    /\ brands = {}
    /\ selectedBrands = <<>>
    /\ brandFilters = {}
    /\ selectedRegion = ""
    /\ error = NoError
    /\ hasSearched = FALSE
    /\ mapBounds = Null
    /\ showSearchButton = FALSE
    /\ hasMovedRef = FALSE
    /\ mapReady = FALSE
    /\ userHasInteracted = FALSE
    /\ locating = FALSE
    /\ flying = FALSE
    /\ searchQuery = <<>>
    /\ brandReqs = {""}
    /\ resultOf = 0
    /\ latestDone = 0
    /\ ev = [op |-> "mount", arg |-> Null]

\* loading starts true; the geolocation request of the mount effect is pending
InitRegion ==
    /\ variant = "region"
    /\ InitCommon
    /\ mapGeo = "pending"
    /\ countryFilter = "all"
    /\ loading = TRUE
    /\ geo = "pending"
    /\ inflight = {}
    /\ issued = 0

\* loading starts false; nothing is fetched until the user searches
InitBounds ==
    /\ variant = "bounds"
    /\ InitCommon
    /\ mapGeo = "pending"
    /\ countryFilter = "all"
    /\ loading = FALSE
    /\ geo = "none"
    /\ inflight = {}
    /\ issued = 0

\* countryFilter starts 'TW' and the mount effect has issued fetchShops
InitCountry ==
    /\ variant = "country"
    /\ InitCommon
    /\ mapGeo = "none"
    /\ countryFilter = "TW"
    /\ loading = TRUE
    /\ geo = "none"
    /\ inflight = {Request(1, "fetchShops", "list",
                           [country |-> "TW", page_size |-> PAGE_SIZE])}
    /\ issued = 1

Init == InitRegion \/ InitBounds \/ InitCountry

-----------------------------------------------------------------------------
(* Region revision: HomePage of part_008 (333-537) with the Map of part_003 *)

\* mutant: the effect refetches the catalog but keeps the brand selection
RegionEffect_KeepSelection(region) ==
    IF region # selectedRegion
    THEN /\ brandReqs' = brandReqs \cup {region}
         /\ UNCHANGED selectedBrands
    ELSE UNCHANGED <<brandReqs, selectedBrands>>

\* useEffect(..., [selectedRegion]): runs when the region value changed
RegionEffect(region) ==
    IF region # selectedRegion
    THEN /\ brandReqs' = brandReqs \cup {region}
         /\ selectedBrands' = <<>>
    ELSE UNCHANGED <<brandReqs, selectedBrands>>

\* loadNearbyShops up to its await
loadNearbyShops(lat, lng) ==
    /\ loading' = TRUE
    /\ error' = NoError
    /\ issued' = issued + 1
    /\ inflight' = inflight \cup
         {Request(issued + 1, "load", "nearby",
                  [lat |-> lat, lng |-> lng, radius_km |-> NEARBY_RADIUS_KM])}
    /\ UNCHANGED <<variant, sheet, contact, selectedShop, locating, mapGeo, flying, searchQuery, shops, brands, selectedBrands, brandFilters,
                   selectedRegion, countryFilter, hasSearched, mapBounds,
                   showSearchButton, hasMovedRef, mapReady, userHasInteracted,
                   brandReqs, resultOf, latestDone>>

\* navigator.geolocation is missing: the mount effect loads the default centre
GeoUnsupported ==
    /\ variant \in {"region", "nearby"}
    /\ geo = "pending"
    /\ geo' = "done"
    /\ loadNearbyShops(DEFAULT_CENTER.lat, DEFAULT_CENTER.lng)
    /\ Ev("geo", [outcome |-> "unsupported"])

\* success callback of getCurrentPosition
GeoSuccess(pos) ==
    /\ variant \in {"region", "nearby"}
    /\ geo = "pending"
    /\ geo' = "done"
    /\ loadNearbyShops(pos.lat, pos.lng)
    /\ Ev("geo", [outcome |-> "position", pos |-> pos])

\* mutant: the error callback only logs and loads nothing
GeoError_NoFallback ==
    /\ variant = "region"
    /\ geo = "pending"
    /\ geo' = "done"
    /\ Ev("geo", [outcome |-> "denied"])
    /\ UNCHANGED <<variant, sheet, contact, selectedShop, locating, mapGeo, flying, searchQuery, shops, brands, selectedBrands, brandFilters,
                   selectedRegion, countryFilter, loading, error, hasSearched,
                   mapBounds, showSearchButton, hasMovedRef, mapReady,
                   userHasInteracted, inflight, brandReqs, issued, resultOf,
                   latestDone>>

\* error callback of getCurrentPosition: denied, unavailable or timed out
GeoError ==
    /\ variant \in {"region", "nearby"}
    /\ geo = "pending"
    /\ geo' = "done"
    /\ loadNearbyShops(DEFAULT_CENTER.lat, DEFAULT_CENTER.lng)
    /\ Ev("geo", [outcome |-> "denied"])

\* loadNearbyShops after its await: the request succeeded
LoadResolved(req, data) ==
    /\ variant = "region"
    /\ req \in inflight
    /\ req.by = "load"
    /\ inflight' = inflight \ {req}
    /\ shops' = data
    /\ selectedRegion' = detectRegion(req.q.lat, req.q.lng)
    /\ RegionEffect(detectRegion(req.q.lat, req.q.lng))
    /\ loading' = FALSE
    /\ resultOf' = req.token
    /\ latestDone' = Max(latestDone, req.token)
    /\ Ev("loaded", [data |-> data])
    /\ UNCHANGED <<variant, sheet, contact, selectedShop, locating, mapGeo, flying, searchQuery, brands, brandFilters, countryFilter, error,
                   hasSearched, mapBounds, showSearchButton, hasMovedRef,
                   mapReady, userHasInteracted, geo, issued>>

\* loadNearbyShops after its await: the request failed
LoadRejected(req) ==
    /\ variant \in {"region", "nearby"}
    /\ req \in inflight
    /\ req.by = "load"
    /\ inflight' = inflight \ {req}
    /\ error' = ErrLoad
    /\ loading' = FALSE
    /\ Ev("loadFailed", Null)
    /\ UNCHANGED <<variant, sheet, contact, selectedShop, locating, mapGeo, flying, searchQuery, shops, brands, selectedBrands, brandFilters,
                   selectedRegion, countryFilter, hasSearched, mapBounds,
                   showSearchButton, hasMovedRef, mapReady, userHasInteracted,
                   geo, brandReqs, issued, resultOf, latestDone>>

\* Map: 'dragstart' and 'zoomstart' mark that the user has moved the map
GestureStart ==
    /\ variant \in {"region", "nearby"}
    /\ hasMovedRef' = TRUE
    /\ Ev("gesture", Null)
    /\ UNCHANGED <<variant, sheet, contact, selectedShop, locating, mapGeo, flying, searchQuery, shops, brands, selectedBrands, brandFilters,
                   selectedRegion, countryFilter, loading, error, hasSearched,
                   mapBounds, showSearchButton, mapReady, userHasInteracted,
                   geo, inflight, brandReqs, issued, resultOf, latestDone>>

\* mutant: every viewport settle fetches the new area at once
handleMapMove_AutoFetch(bounds) ==
    /\ mapBounds' = bounds
    /\ showSearchButton' = TRUE
    /\ loading' = TRUE
    /\ issued' = issued + 1
    /\ inflight' = inflight \cup
         {Request(issued + 1, "search", "nearby", NearbyQueryOf(bounds))}
    /\ UNCHANGED <<variant, sheet, contact, selectedShop, locating, mapGeo, searchQuery, shops, brands, selectedBrands, brandFilters,
                   selectedRegion, countryFilter, error, hasSearched,
                   hasMovedRef, mapReady, userHasInteracted, geo, brandReqs,
                   resultOf, latestDone>>

\* HomePage.handleMapMove
handleMapMove(bounds) ==
    /\ mapBounds' = bounds
    /\ showSearchButton' = TRUE
    /\ UNCHANGED <<variant, sheet, contact, selectedShop, locating, mapGeo, searchQuery, shops, brands, selectedBrands, brandFilters,
                   selectedRegion, countryFilter, loading, error, hasSearched,
                   hasMovedRef, mapReady, userHasInteracted, geo, inflight,
                   brandReqs, issued, resultOf, latestDone>>

\* Map: 'moveend' forwards the viewport once the user has moved the map
MoveEnd(bounds) ==
    /\ variant \in {"region", "nearby"}
    /\ UNCHANGED flying
    /\ IF hasMovedRef
       THEN /\ handleMapMove(bounds)
            /\ Ev("settle", [bounds |-> bounds])
       ELSE /\ Ev("moveendIgnored", Null)
            /\ UNCHANGED <<variant, sheet, contact, selectedShop, locating, mapGeo, searchQuery, shops, brands, selectedBrands,
                           brandFilters, selectedRegion, countryFilter,
                           loading, error, hasSearched, mapBounds,
                           showSearchButton, hasMovedRef, mapReady,
                           userHasInteracted, geo, inflight, brandReqs,
                           issued, resultOf, latestDone>>

\* mutant: the null check comes after setLoading(true) and setError(null)
handleSearchArea_LateGuard ==
    IF mapBounds = Null
    THEN /\ loading' = TRUE
         /\ error' = NoError
         /\ UNCHANGED <<variant, sheet, contact, selectedShop, locating, mapGeo, flying, searchQuery, shops, brands, selectedBrands, brandFilters,
                        selectedRegion, countryFilter, hasSearched, mapBounds,
                        showSearchButton, hasMovedRef, mapReady,
                        userHasInteracted, geo, inflight, brandReqs, issued,
                        resultOf, latestDone>>
    ELSE /\ loading' = TRUE
         /\ error' = NoError
         /\ showSearchButton' = FALSE
         /\ issued' = issued + 1
         /\ inflight' = inflight \cup
              {Request(issued + 1, "search", "nearby", NearbyQueryOf(mapBounds))}
         /\ UNCHANGED <<variant, sheet, contact, selectedShop, locating, mapGeo, flying, searchQuery, shops, brands, selectedBrands, brandFilters,
                        selectedRegion, countryFilter, hasSearched, mapBounds,
                        hasMovedRef, mapReady, userHasInteracted, geo,
                        brandReqs, resultOf, latestDone>>

\* HomePage.handleSearchArea up to its await
handleSearchArea ==
    IF mapBounds = Null
    THEN UNCHANGED <<variant, sheet, contact, selectedShop, locating, mapGeo, flying, searchQuery, shops, brands, selectedBrands, brandFilters,
                     selectedRegion, countryFilter, loading, error,
                     hasSearched, mapBounds, showSearchButton, hasMovedRef,
                     mapReady, userHasInteracted, geo, inflight, brandReqs,
                     issued, resultOf, latestDone>>
    ELSE /\ loading' = TRUE
         /\ error' = NoError
         /\ showSearchButton' = FALSE
         /\ issued' = issued + 1
         /\ inflight' = inflight \cup
              {Request(issued + 1, "search", "nearby", NearbyQueryOf(mapBounds))}
         /\ UNCHANGED <<variant, sheet, contact, selectedShop, locating, mapGeo, flying, searchQuery, shops, brands, selectedBrands, brandFilters,
                        selectedRegion, countryFilter, hasSearched, mapBounds,
                        hasMovedRef, mapReady, userHasInteracted, geo,
                        brandReqs, resultOf, latestDone>>

\* mutant: the button stays enabled while a fetch is outstanding
SearchButtonEnabled_WhileLoading ==
    showSearchButton

\* Map: the "Search This Area" button is rendered and not disabled
SearchButtonEnabled ==
    /\ showSearchButton
    /\ ~loading

\* click on the "Search This Area" button
SearchClick ==
    /\ variant = "region"
    /\ SearchButtonEnabled
    /\ issued < MaxFetches
    /\ handleSearchArea
    /\ Ev("search", [shown |-> showSearchButton])

\* mutant: the response replaces the shops but the region is not re-derived
SearchResolved_KeepRegion(req, data) ==
    /\ variant = "region"
    /\ req \in inflight
    /\ req.by = "search"
    /\ inflight' = inflight \ {req}
    /\ shops' = data
    /\ loading' = FALSE
    /\ resultOf' = req.token
    /\ latestDone' = Max(latestDone, req.token)
    /\ Ev("searched", [data |-> data])
    /\ UNCHANGED <<variant, sheet, contact, selectedShop, locating, mapGeo, flying, searchQuery, brands, selectedBrands, brandFilters,
                   selectedRegion, countryFilter, error, hasSearched,
                   mapBounds, showSearchButton, hasMovedRef, mapReady,
                   userHasInteracted, geo, brandReqs, issued>>

\* handleSearchArea after its await: the request succeeded
SearchResolved(req, data) ==
    /\ variant = "region"
    /\ req \in inflight
    /\ req.by = "search"
    /\ inflight' = inflight \ {req}
    /\ shops' = data
    /\ selectedRegion' = detectRegion(req.q.lat, req.q.lng)
    /\ RegionEffect(detectRegion(req.q.lat, req.q.lng))
    /\ loading' = FALSE
    /\ resultOf' = req.token
    /\ latestDone' = Max(latestDone, req.token)
    /\ Ev("searched", [data |-> data])
    /\ UNCHANGED <<variant, sheet, contact, selectedShop, locating, mapGeo, flying, searchQuery, brands, brandFilters, countryFilter, error,
                   hasSearched, mapBounds, showSearchButton, hasMovedRef,
                   mapReady, userHasInteracted, geo, issued>>

\* mutant: the failure path has no finally block
SearchRejected_StaysLoading(req) ==
    /\ variant = "region"
    /\ req \in inflight
    /\ req.by = "search"
    /\ inflight' = inflight \ {req}
    /\ error' = ErrSearch
    /\ Ev("searchFailed", Null)
    /\ UNCHANGED <<variant, sheet, contact, selectedShop, locating, mapGeo, flying, searchQuery, shops,
                   brands, selectedBrands, brandFilters, selectedRegion,
                   countryFilter, loading, hasSearched, mapBounds,
                   showSearchButton, hasMovedRef, mapReady, userHasInteracted,
                   geo, brandReqs, issued, resultOf, latestDone>>

\* mutant: the catch block also resets the region and the brand selection
SearchRejected_ClearsFilters(req) ==
    /\ variant = "region"
    /\ req \in inflight
    /\ req.by = "search"
    /\ inflight' = inflight \ {req}
    /\ error' = ErrSearch
    /\ loading' = FALSE
    /\ selectedRegion' = ""
    /\ selectedBrands' = <<>>
    /\ Ev("searchFailed", Null)
    /\ UNCHANGED <<variant, sheet, contact, selectedShop, locating, mapGeo, flying, searchQuery, shops, brands, brandFilters,
                   countryFilter, hasSearched, mapBounds, showSearchButton,
                   hasMovedRef, mapReady, userHasInteracted, geo, brandReqs,
                   issued, resultOf, latestDone>>

\* handleSearchArea after its await: the request failed
SearchRejected(req) ==
    /\ variant \in {"region", "nearby"}
    /\ req \in inflight
    /\ req.by = "search"
    /\ inflight' = inflight \ {req}
    /\ error' = ErrSearch
    /\ loading' = FALSE
    /\ Ev("searchFailed", Null)
    /\ UNCHANGED <<variant, sheet, contact, selectedShop, locating, mapGeo, flying, searchQuery, shops, brands, selectedBrands, brandFilters,
                   selectedRegion, countryFilter, hasSearched, mapBounds,
                   showSearchButton, hasMovedRef, mapReady, userHasInteracted,
                   geo, brandReqs, issued, resultOf, latestDone>>

\* HomePage.handleBrandToggle: FilterPanel lists the brands of the catalog
handleBrandToggle(brandId) ==
    /\ variant \in {"region", "country"}
    /\ brandId \in brands
    /\ selectedBrands' = ToggleInSeq(selectedBrands, brandId)
    /\ Ev("toggle", [id |-> brandId])
    /\ UNCHANGED <<variant, sheet, contact, selectedShop, locating, mapGeo, flying, searchQuery, shops, brands, brandFilters, selectedRegion,
                   countryFilter, loading, error, hasSearched, mapBounds,
                   showSearchButton, hasMovedRef, mapReady, userHasInteracted,
                   geo, inflight, brandReqs, issued, resultOf, latestDone>>

\* HomePage.handleClearFilters: the control is rendered when filterCount > 0
handleClearFilters ==
    /\ variant \in {"region", "country"}
    /\ Len(selectedBrands) > 0
    /\ selectedBrands' = <<>>
    /\ Ev("clear", Null)
    /\ UNCHANGED <<variant, sheet, contact, selectedShop, locating, mapGeo, flying, searchQuery, shops, brands, brandFilters, selectedRegion,
                   countryFilter, loading, error, hasSearched, mapBounds,
                   showSearchButton, hasMovedRef, mapReady, userHasInteracted,
                   geo, inflight, brandReqs, issued, resultOf, latestDone>>

\* HomePage.handleRegionChange, with the effect on [selectedRegion]
handleRegionChange(region) ==
    /\ variant = "region"
    /\ selectedRegion' = region
    /\ RegionEffect(region)
    /\ Ev("region", [region |-> region])
    /\ UNCHANGED <<variant, sheet, contact, selectedShop, locating, mapGeo, flying, searchQuery, shops, brands, brandFilters, countryFilter,
                   loading, error, hasSearched, mapBounds, showSearchButton,
                   hasMovedRef, mapReady, userHasInteracted, geo, inflight,
                   issued, resultOf, latestDone>>

\* getBrands(...).then(setBrands)
BrandsResolved(region) ==
    /\ region \in brandReqs
    /\ brandReqs' = brandReqs \ {region}
    /\ brands' = BrandsOfRegion(region)
    /\ Ev("brands", Null)
    /\ UNCHANGED <<variant, sheet, contact, selectedShop, locating, mapGeo, flying, searchQuery, shops, selectedBrands, brandFilters,
                   selectedRegion, countryFilter, loading, error, hasSearched,
                   mapBounds, showSearchButton, hasMovedRef, mapReady,
                   userHasInteracted, geo, inflight, issued, resultOf,
                   latestDone>>

\* getBrands(...).catch(console.error)
BrandsRejected(region) ==
    /\ region \in brandReqs
    /\ brandReqs' = brandReqs \ {region}
    /\ Ev("brandsFailed", Null)
    /\ UNCHANGED <<variant, sheet, contact, selectedShop, locating, mapGeo, flying, searchQuery, shops, brands, selectedBrands, brandFilters,
                   selectedRegion, countryFilter, loading, error, hasSearched,
                   mapBounds, showSearchButton, hasMovedRef, mapReady,
                   userHasInteracted, geo, inflight, issued, resultOf,
                   latestDone>>

-----------------------------------------------------------------------------
(* Bounds revision: HomePage of part_008 (1-168) with Map.tsx               *)

\* mutant: the bounds are recorded but the search button is never flagged
handleBoundsChange_NoFlag(bounds) ==
    /\ mapBounds' = bounds
    /\ UNCHANGED <<variant, sheet, contact, selectedShop, locating, mapGeo, searchQuery, shops, brands, selectedBrands, brandFilters,
                   selectedRegion, countryFilter, loading, error, hasSearched,
                   showSearchButton, hasMovedRef, userHasInteracted, geo,
                   inflight, brandReqs, issued, resultOf, latestDone>>

\* HomePage.handleBoundsChange
handleBoundsChange(bounds) ==
    /\ mapBounds' = bounds
    /\ showSearchButton' = IF hasSearched THEN TRUE ELSE showSearchButton
    /\ UNCHANGED <<variant, sheet, contact, selectedShop, locating, mapGeo, searchQuery, shops, brands, selectedBrands, brandFilters,
                   selectedRegion, countryFilter, loading, error, hasSearched,
                   hasMovedRef, userHasInteracted, geo, inflight, brandReqs,
                   issued, resultOf, latestDone>>

\* Map.tsx: 'load' and the marker image's onload report the initial bounds
MapLoad(bounds) ==
    /\ variant = "bounds"
    /\ ~mapReady
    /\ mapReady' = TRUE
    /\ UNCHANGED flying
    /\ handleBoundsChange(bounds)
    /\ Ev("settle", [bounds |-> bounds, initial |-> TRUE])

\* Map.tsx: 'moveend' reports the bounds after every camera movement
MoveEndBounds(bounds) ==
    /\ variant = "bounds"
    /\ UNCHANGED <<mapReady, flying>>
    /\ handleBoundsChange(bounds)
    /\ Ev("settle", [bounds |-> bounds])

\* mutant: the search never passes the selected brands on
BrandIdsArg_None == {}

\* the brandIds argument of getShopsInBounds; {} stands for undefined, which
\* getShopsInBounds sends the same way as an empty array
BrandIdsArg == brandFilters

\* HomePage.handleSearchArea (bounds revision) up to its await
handleSearchAreaBounds ==
    IF mapBounds = Null
    THEN UNCHANGED <<variant, sheet, contact, selectedShop, locating, mapGeo, flying, searchQuery, shops, brands, selectedBrands, brandFilters,
                     selectedRegion, countryFilter, loading, error,
                     hasSearched, mapBounds, showSearchButton, hasMovedRef,
                     mapReady, geo, inflight, brandReqs, issued, resultOf,
                     latestDone>>
    ELSE /\ loading' = TRUE
         /\ error' = NoError
         /\ issued' = issued + 1
         /\ inflight' = inflight \cup
              {Request(issued + 1, "search", "bounds",
                       [bounds |-> mapBounds, brand_ids |-> BrandIdsArg])}
         /\ UNCHANGED <<variant, sheet, contact, selectedShop, locating, mapGeo, flying, searchQuery, shops, brands, selectedBrands, brandFilters,
                        selectedRegion, countryFilter, hasSearched, mapBounds,
                        showSearchButton, hasMovedRef, mapReady, geo,
                        brandReqs, resultOf, latestDone>>

\* HomePage passes showSearchButton={mapBounds !== null &&
\* (showSearchButton || !hasSearched)}; Map.tsx renders the button when
\* mapReady && showSearchButton and disables it while searchLoading
SearchButtonEnabledBounds ==
    /\ mapReady
    /\ mapBounds # Null
    /\ (showSearchButton \/ ~hasSearched)
    /\ ~loading

\* Map.tsx: onClick of the "Search This Area" button
SearchClickBounds ==
    /\ variant = "bounds"
    /\ SearchButtonEnabledBounds
    /\ issued < MaxFetches
    /\ userHasInteracted' = TRUE
    /\ handleSearchAreaBounds
    /\ Ev("search", [shown |-> showSearchButton])

\* mutant: the response is appended to the shops already held
SearchResolvedBounds_Merge(req, data) ==
    /\ variant = "bounds"
    /\ req \in inflight
    /\ inflight' = inflight \ {req}
    /\ shops' = shops \o data
    /\ showSearchButton' = FALSE
    /\ hasSearched' = TRUE
    /\ loading' = FALSE
    /\ resultOf' = req.token
    /\ latestDone' = Max(latestDone, req.token)
    /\ Ev("searched", [data |-> data])
    /\ UNCHANGED <<variant, sheet, contact, selectedShop, locating, mapGeo, flying, searchQuery, brands, selectedBrands, brandFilters,
                   selectedRegion, countryFilter, error, mapBounds,
                   hasMovedRef, mapReady, userHasInteracted, geo, brandReqs,
                   issued>>

\* handleSearchArea (bounds revision) after its await: the request succeeded
SearchResolvedBounds(req, data) ==
    /\ variant = "bounds"
    /\ req \in inflight
    /\ inflight' = inflight \ {req}
    /\ shops' = data
    /\ showSearchButton' = FALSE
    /\ hasSearched' = TRUE
    /\ loading' = FALSE
    /\ resultOf' = req.token
    /\ latestDone' = Max(latestDone, req.token)
    /\ Ev("searched", [data |-> data])
    /\ UNCHANGED <<variant, sheet, contact, selectedShop, locating, mapGeo, flying, searchQuery, brands, selectedBrands, brandFilters,
                   selectedRegion, countryFilter, error, mapBounds,
                   hasMovedRef, mapReady, userHasInteracted, geo, brandReqs,
                   issued>>

\* handleSearchArea (bounds revision) after its await: the request failed
SearchRejectedBounds(req) ==
    /\ variant = "bounds"
    /\ req \in inflight
    /\ inflight' = inflight \ {req}
    /\ error' = ErrBackend
    /\ loading' = FALSE
    /\ Ev("searchFailed", Null)
    /\ UNCHANGED <<variant, sheet, contact, selectedShop, locating, mapGeo, flying, searchQuery, shops, brands, selectedBrands, brandFilters,
                   selectedRegion, countryFilter, hasSearched, mapBounds,
                   showSearchButton, hasMovedRef, mapReady, userHasInteracted,
                   geo, brandReqs, issued, resultOf, latestDone>>

\* mutant: the toggle changes the selection without flagging the search button
toggleBrandFilter_NoFlag(brandId) ==
    /\ variant = "bounds"
    /\ brandId \in brands
    /\ brandFilters' = ToggleInSet(brandFilters, brandId)
    /\ Ev("toggle", [id |-> brandId])
    /\ UNCHANGED <<variant, sheet, contact, selectedShop, locating, mapGeo, flying, searchQuery, shops, brands, selectedBrands, selectedRegion,
                   countryFilter, loading, error, hasSearched, mapBounds,
                   showSearchButton, hasMovedRef, mapReady, userHasInteracted,
                   geo, inflight, brandReqs, issued, resultOf, latestDone>>

\* HomePage.toggleBrandFilter: one checkbox per brand of the catalog
toggleBrandFilter(brandId) ==
    /\ variant = "bounds"
    /\ brandId \in brands
    /\ brandFilters' = ToggleInSet(brandFilters, brandId)
    /\ showSearchButton' = IF hasSearched THEN TRUE ELSE showSearchButton
    /\ Ev("toggle", [id |-> brandId])
    /\ UNCHANGED <<variant, sheet, contact, selectedShop, locating, mapGeo, flying, searchQuery, shops, brands, selectedBrands, selectedRegion,
                   countryFilter, loading, error, hasSearched, mapBounds,
                   hasMovedRef, mapReady, userHasInteracted, geo, inflight,
                   brandReqs, issued, resultOf, latestDone>>

\* onClick of "Clear all", rendered when brandFilters.size > 0
ClearAllClick ==
    /\ variant = "bounds"
    /\ brandFilters # {}
    /\ brandFilters' = {}
    /\ showSearchButton' = IF hasSearched THEN TRUE ELSE showSearchButton
    /\ Ev("clear", Null)
    /\ UNCHANGED <<variant, sheet, contact, selectedShop, locating, mapGeo, flying, searchQuery, shops, brands, selectedBrands, selectedRegion,
                   countryFilter, loading, error, hasSearched, mapBounds,
                   hasMovedRef, mapReady, userHasInteracted, geo, inflight,
                   brandReqs, issued, resultOf, latestDone>>

-----------------------------------------------------------------------------
(* Country revision: HomePage of part_007                                   *)

\* the effect on [countryFilter]: fetchShops up to its await
fetchShops(country) ==
    /\ loading' = TRUE
    /\ error' = NoError
    /\ issued' = issued + 1
    /\ inflight' = inflight \cup
         {Request(issued + 1, "fetchShops", "list",
                  [country |-> country, page_size |-> PAGE_SIZE])}

\* FilterPanel's onCountryChange={setCountryFilter}; the effect runs when the
\* value changed
CountryChange(country) ==
    /\ variant = "country"
    /\ country # countryFilter
    /\ issued < MaxFetches
    /\ countryFilter' = country
    /\ fetchShops(country)
    /\ Ev("country", [country |-> country])
    /\ UNCHANGED <<variant, sheet, contact, selectedShop, locating, mapGeo, flying, searchQuery, shops, brands, selectedBrands, brandFilters,
                   selectedRegion, hasSearched, mapBounds, showSearchButton,
                   hasMovedRef, mapReady, userHasInteracted, geo, brandReqs,
                   resultOf, latestDone>>

\* fetchShops after its await: the request succeeded
FetchShopsResolved(req, data) ==
    /\ variant = "country"
    /\ req \in inflight
    /\ inflight' = inflight \ {req}
    /\ shops' = data
    /\ selectedShop' = Null
    /\ loading' = FALSE
    /\ resultOf' = req.token
    /\ latestDone' = Max(latestDone, req.token)
    /\ Ev("loaded", [data |-> data])
    /\ UNCHANGED <<variant, sheet, contact, locating, mapGeo, flying, searchQuery, brands, selectedBrands, brandFilters,
                   selectedRegion, countryFilter, error, hasSearched,
                   mapBounds, showSearchButton, hasMovedRef, mapReady,
                   userHasInteracted, geo, brandReqs, issued>>

\* fetchShops after its await: the request failed
FetchShopsRejected(req) ==
    /\ variant = "country"
    /\ req \in inflight
    /\ inflight' = inflight \ {req}
    /\ error' = ErrBackend
    /\ loading' = FALSE
    /\ Ev("loadFailed", Null)
    /\ UNCHANGED <<variant, sheet, contact, selectedShop, locating, mapGeo, flying, searchQuery, shops, brands, selectedBrands, brandFilters,
                   selectedRegion, countryFilter, hasSearched, mapBounds,
                   showSearchButton, hasMovedRef, mapReady, userHasInteracted,
                   geo, brandReqs, issued, resultOf, latestDone>>

-----------------------------------------------------------------------------
(* The "Find my location" button of the Map component (part_003 and Map.tsx) *)

\* Map.locateUser up to getCurrentPosition; the button is disabled while
\* locating, and without navigator.geolocation the handler returns at once
locateUser(supported) ==
    /\ variant \in {"region", "bounds"}
    /\ ~locating
    /\ locating' = supported
    /\ Ev("locate", [supported |-> supported])
    /\ UNCHANGED <<variant, sheet, contact, selectedShop, mapGeo, flying, searchQuery,
                   shops, brands, selectedBrands, brandFilters,
                   selectedRegion, countryFilter, loading, error, hasSearched,
                   mapBounds, showSearchButton, hasMovedRef, mapReady,
                   userHasInteracted, geo, inflight, brandReqs, issued,
                   resultOf, latestDone>>

\* success callback of locateUser: marker, flyTo, setLocating(false)
LocateSuccess(pos) ==
    /\ locating
    /\ locating' = FALSE
    /\ flying' = TRUE
    /\ Ev("located", [pos |-> pos])
    /\ UNCHANGED <<variant, sheet, contact, selectedShop, mapGeo, searchQuery,
                   shops, brands, selectedBrands, brandFilters,
                   selectedRegion, countryFilter, loading, error, hasSearched,
                   mapBounds, showSearchButton, hasMovedRef, mapReady,
                   userHasInteracted, geo, inflight, brandReqs, issued,
                   resultOf, latestDone>>

\* error callback of locateUser: setLocating(false), then alert(...)
LocateError ==
    /\ locating
    /\ locating' = FALSE
    /\ Ev("locateFailed", [alert |-> LocateAlert])
    /\ UNCHANGED <<variant, sheet, contact, selectedShop, mapGeo, flying, searchQuery,
                   shops, brands, selectedBrands, brandFilters,
                   selectedRegion, countryFilter, loading, error, hasSearched,
                   mapBounds, showSearchButton, hasMovedRef, mapReady,
                   userHasInteracted, geo, inflight, brandReqs, issued,
                   resultOf, latestDone>>

-----------------------------------------------------------------------------
(* The Map's own start-up geolocation request and the flyTo it starts; of    *)
(* the events a flyTo raises, its closing 'moveend' is modelled.             *)

\* success callback of the Map's getCurrentPosition: part_003 flies to the
\* position; Map.tsx does so only if !userHasInteracted.current
MapGeoSuccess(pos) ==
    /\ variant \in {"region", "bounds"}
    /\ mapGeo = "pending"
    /\ mapGeo' = "done"
    /\ flying' = IF variant = "bounds" /\ userHasInteracted THEN flying ELSE TRUE
    /\ Ev("mapGeo", [outcome |-> "position", pos |-> pos])
    /\ UNCHANGED <<variant, sheet, contact, selectedShop, locating, searchQuery, shops, brands,
                   selectedBrands, brandFilters, selectedRegion, countryFilter,
                   loading, error, hasSearched, mapBounds, showSearchButton,
                   hasMovedRef, mapReady, userHasInteracted, geo, inflight,
                   brandReqs, issued, resultOf, latestDone>>

\* error callback of the Map's getCurrentPosition: stay at the default centre
MapGeoError ==
    /\ variant \in {"region", "bounds"}
    /\ mapGeo = "pending"
    /\ mapGeo' = "done"
    /\ Ev("mapGeo", [outcome |-> "denied"])
    /\ UNCHANGED <<variant, sheet, contact, selectedShop, locating, flying, searchQuery, shops, brands,
                   selectedBrands, brandFilters, selectedRegion, countryFilter,
                   loading, error, hasSearched, mapBounds, showSearchButton,
                   hasMovedRef, mapReady, userHasInteracted, geo, inflight,
                   brandReqs, issued, resultOf, latestDone>>

\* part_003: 'moveend' at the end of a flyTo
FlyEnd(bounds) ==
    /\ variant = "region"
    /\ flying
    /\ flying' = FALSE
    /\ Ev("flyEnd", [bounds |-> bounds])
    /\ IF hasMovedRef
       THEN handleMapMove(bounds)
       ELSE UNCHANGED <<variant, sheet, contact, selectedShop, locating, mapGeo, searchQuery, shops, brands,
                        selectedBrands, brandFilters, selectedRegion,
                        countryFilter, loading, error, hasSearched, mapBounds,
                        showSearchButton, hasMovedRef, mapReady,
                        userHasInteracted, geo, inflight, brandReqs, issued,
                        resultOf, latestDone>>

\* Map.tsx: 'moveend' at the end of a flyTo
FlyEndBounds(bounds) ==
    /\ variant = "bounds"
    /\ flying
    /\ flying' = FALSE
    /\ UNCHANGED mapReady
    /\ handleBoundsChange(bounds)
    /\ Ev("flyEnd", [bounds |-> bounds])

-----------------------------------------------------------------------------
(* Nearby revision: HomePage of part_008:181-331, the map-first page without *)
(* region detection. Its mount effect, loadNearbyShops' failure path,        *)
(* handleMapMove and the Map are those of the region revision.               *)

\* loading starts true; the geolocation request of the mount effect is pending
InitNearby ==
    /\ variant = "nearby"
    /\ InitCommon
    /\ mapGeo = "none"
    /\ countryFilter = "all"
    /\ loading = TRUE
    /\ geo = "pending"
    /\ inflight = {}
    /\ issued = 0

\* loadNearbyShops after its await: the request succeeded
LoadResolvedNearby(req, data) ==
    /\ variant = "nearby"
    /\ req \in inflight
    /\ req.by = "load"
    /\ inflight' = inflight \ {req}
    /\ shops' = data
    /\ loading' = FALSE
    /\ resultOf' = req.token
    /\ latestDone' = Max(latestDone, req.token)
    /\ Ev("loaded", [data |-> data])
    /\ UNCHANGED <<variant, sheet, contact, selectedShop, locating, mapGeo, flying, searchQuery, brands,
                   selectedBrands, brandFilters, selectedRegion, countryFilter,
                   error, hasSearched, mapBounds, showSearchButton,
                   hasMovedRef, mapReady, userHasInteracted, geo, brandReqs,
                   issued>>

\* HomePage.handleSearchArea of the nearby revision up to its await
handleSearchAreaNearby ==
    IF mapBounds = Null
    THEN UNCHANGED <<variant, sheet, contact, selectedShop, locating, mapGeo, flying, searchQuery, shops,
                     brands, selectedBrands, brandFilters, selectedRegion,
                     countryFilter, loading, error, hasSearched, mapBounds,
                     showSearchButton, hasMovedRef, mapReady,
                     userHasInteracted, geo, inflight, brandReqs, issued,
                     resultOf, latestDone>>
    ELSE /\ loading' = TRUE
         /\ showSearchButton' = FALSE
         /\ issued' = issued + 1
         /\ inflight' = inflight \cup
              {Request(issued + 1, "search", "nearby", NearbyQueryOf(mapBounds))}
         /\ UNCHANGED <<variant, sheet, contact, selectedShop, locating, mapGeo, flying, searchQuery, shops,
                        brands, selectedBrands, brandFilters, selectedRegion,
                        countryFilter, error, hasSearched, mapBounds,
                        hasMovedRef, mapReady, userHasInteracted, geo,
                        brandReqs, resultOf, latestDone>>

\* click on the "Search This Area" button
SearchClickNearby ==
    /\ variant = "nearby"
    /\ SearchButtonEnabled
    /\ issued < MaxFetches
    /\ handleSearchAreaNearby
    /\ Ev("search", [shown |-> showSearchButton])

\* handleSearchArea of the nearby revision after its await: success
SearchResolvedNearby(req, data) ==
    /\ variant = "nearby"
    /\ req \in inflight
    /\ req.by = "search"
    /\ inflight' = inflight \ {req}
    /\ shops' = data
    /\ loading' = FALSE
    /\ resultOf' = req.token
    /\ latestDone' = Max(latestDone, req.token)
    /\ Ev("searched", [data |-> data])
    /\ UNCHANGED <<variant, sheet, contact, selectedShop, locating, mapGeo, flying, searchQuery, brands,
                   selectedBrands, brandFilters, selectedRegion, countryFilter,
                   error, hasSearched, mapBounds, showSearchButton,
                   hasMovedRef, mapReady, userHasInteracted, geo, brandReqs,
                   issued>>

NextNearby ==
    \/ GeoUnsupported
    \/ \E pos \in Positions : GeoSuccess(pos)
    \/ GeoError
    \/ \E req \in inflight, data \in Responses : LoadResolvedNearby(req, data)
    \/ \E req \in inflight : LoadRejected(req)
    \/ GestureStart
    \/ \E b \in BoundsSet : MoveEnd(b)
    \/ SearchClickNearby
    \/ \E req \in inflight, data \in Responses : SearchResolvedNearby(req, data)
    \/ \E req \in inflight : SearchRejected(req)

SpecNearby == InitNearby /\ [][NextNearby]_vars

\* onShopSelect={setSelectedShop}: a click on a marker of the Map or on a card
\* of the list, both of which show the displayed shops
ShopSelect(shop) ==
    /\ \E i \in 1..Len(IF variant = "bounds" THEN shops ELSE filteredShops) :
          (IF variant = "bounds" THEN shops ELSE filteredShops)[i] = shop
    /\ selectedShop' = shop
    /\ Ev("select", [id |-> shop.id])
    /\ UNCHANGED <<variant, sheet, contact, locating, mapGeo, flying, searchQuery, shops,
                   brands, selectedBrands, brandFilters, selectedRegion,
                   countryFilter, loading, error, hasSearched, mapBounds,
                   showSearchButton, hasMovedRef, mapReady, userHasInteracted,
                   geo, inflight, brandReqs, issued, resultOf, latestDone>>

-----------------------------------------------------------------------------

NextRegion ==
    \/ GeoUnsupported
    \/ \E pos \in Positions : GeoSuccess(pos)
    \/ GeoError
    \/ \E req \in inflight, data \in Responses : LoadResolved(req, data)
    \/ \E req \in inflight : LoadRejected(req)
    \/ GestureStart
    \/ \E b \in BoundsSet : MoveEnd(b)
    \/ SearchClick
    \/ \E req \in inflight, data \in Responses : SearchResolved(req, data)
    \/ \E req \in inflight : SearchRejected(req)
    \/ \E r \in RegionChoices : handleRegionChange(r)

NextBounds ==
    \/ \E b \in BoundsSet : MapLoad(b)
    \/ \E b \in BoundsSet : MoveEndBounds(b)
    \/ SearchClickBounds
    \/ \E req \in inflight, data \in Responses : SearchResolvedBounds(req, data)
    \/ \E req \in inflight : SearchRejectedBounds(req)
    \/ \E id \in BrandIds : toggleBrandFilter(id)
    \/ ClearAllClick

NextCountry ==
    \/ \E c \in COUNTRIES : CountryChange(c)
    \/ \E req \in inflight, data \in Responses : FetchShopsResolved(req, data)
    \/ \E req \in inflight : FetchShopsRejected(req)

NextShared ==
    \/ \E id \in BrandIds : handleBrandToggle(id)
    \/ handleClearFilters
    \/ \E r \in REGIONS : BrandsResolved(r)
    \/ \E r \in REGIONS : BrandsRejected(r)

Next == NextRegion \/ NextBounds \/ NextCountry \/ NextShared

Spec == Init /\ [][Next]_vars

\* onSearchClick={handleSearchArea}: the handler invoked whatever the Map
\* component currently renders
SearchTrigger ==
    /\ variant = "region"
    /\ issued < MaxFetches
    /\ handleSearchArea
    /\ Ev("search", [shown |-> showSearchButton])

SearchTriggerBounds ==
    /\ variant = "bounds"
    /\ issued < MaxFetches
    /\ UNCHANGED userHasInteracted
    /\ handleSearchAreaBounds
    /\ Ev("search", [shown |-> showSearchButton])

NextOpen ==
    \/ GeoUnsupported
    \/ \E pos \in Positions : GeoSuccess(pos)
    \/ GeoError
    \/ \E req \in inflight, data \in Responses : LoadResolved(req, data)
    \/ \E req \in inflight : LoadRejected(req)
    \/ GestureStart
    \/ \E b \in BoundsSet : MoveEnd(b)
    \/ SearchTrigger
    \/ \E req \in inflight, data \in Responses : SearchResolved(req, data)
    \/ \E req \in inflight : SearchRejected(req)
    \/ \E b \in BoundsSet : MapLoad(b)
    \/ \E b \in BoundsSet : MoveEndBounds(b)
    \/ SearchTriggerBounds
    \/ \E req \in inflight, data \in Responses : SearchResolvedBounds(req, data)
    \/ \E req \in inflight : SearchRejectedBounds(req)

\* the geolocation provider answers the request of the mount effect
GeoOutcome ==
    \/ GeoUnsupported
    \/ \E pos \in Positions : GeoSuccess(pos)
    \/ GeoError

\* Spec under the assumption that the geolocation provider eventually reports
\* a position, a denial or a timeout (getCurrentPosition with timeout: 5000)
FairSpec == Spec /\ WF_vars(GeoOutcome)

\* a shop request in flight is answered or fails
FetchSettles ==
    \/ \E req \in inflight, data \in Responses : LoadResolved(req, data)
    \/ \E req \in inflight : LoadRejected(req)
    \/ \E req \in inflight, data \in Responses : SearchResolved(req, data)
    \/ \E req \in inflight : SearchRejected(req)
    \/ \E req \in inflight, data \in Responses : SearchResolvedBounds(req, data)
    \/ \E req \in inflight : SearchRejectedBounds(req)
    \/ \E req \in inflight, data \in Responses : FetchShopsResolved(req, data)
    \/ \E req \in inflight : FetchShopsRejected(req)

\* the shop-fetch path of the three revisions: what issues a shop request and
\* what answers it; the brand filter and catalog steps are left out
NextFetch ==
    \/ GeoOutcome
    \/ GestureStart
    \/ \E b \in BoundsSet : MoveEnd(b)
    \/ SearchClick
    \/ \E b \in BoundsSet : MapLoad(b)
    \/ \E b \in BoundsSet : MoveEndBounds(b)
    \/ SearchClickBounds
    \/ \E c \in COUNTRIES : CountryChange(c)
    \/ FetchSettles

\* the shop-fetch path under the assumption that the geolocation provider
\* reports and that every HTTP request settles: each await of a get resolves
\* or rejects
FairFetchSpec ==
    Init /\ [][NextFetch]_vars /\ WF_vars(GeoOutcome) /\ WF_vars(FetchSettles)

\* The shop selection: the fetch path of the three revisions, the brand filter
\* of the region and country revisions and the user picking a displayed shop
NextSelect ==
    \/ NextFetch
    \/ \E r \in REGIONS : BrandsResolved(r)
    \/ \E id \in BrandIds : handleBrandToggle(id)
    \/ handleClearFilters
    \/ \E data \in Responses, i \in 1..MaxShops :
          i <= Len(data) /\ ShopSelect(data[i])

SpecSelect == Init /\ [][NextSelect]_vars

\* The search path of the two map-driven controllers with the search handler
\* open to any caller; the brand filter and catalog steps are left out
SpecOpen == (InitRegion \/ InitBounds) /\ [][NextOpen]_vars

\* The two map-driven controllers with the Map's locate button; the brand
\* filter and catalog steps are left out
NextLocate ==
    \/ GeoUnsupported
    \/ \E pos \in Positions : GeoSuccess(pos)
    \/ GeoError
    \/ \E req \in inflight, data \in Responses : LoadResolved(req, data)
    \/ \E req \in inflight : LoadRejected(req)
    \/ GestureStart
    \/ \E b \in BoundsSet : MoveEnd(b)
    \/ SearchClick
    \/ \E req \in inflight, data \in Responses : SearchResolved(req, data)
    \/ \E req \in inflight : SearchRejected(req)
    \/ \E b \in BoundsSet : MapLoad(b)
    \/ \E b \in BoundsSet : MoveEndBounds(b)
    \/ SearchClickBounds
    \/ \E req \in inflight, data \in Responses : SearchResolvedBounds(req, data)
    \/ \E req \in inflight : SearchRejectedBounds(req)
    \/ \E supported \in BOOLEAN : locateUser(supported)
    \/ \E pos \in Positions : LocateSuccess(pos)
    \/ LocateError
    \/ \E b \in BoundsSet : FlyEnd(b)
    \/ \E b \in BoundsSet : FlyEndBounds(b)

SpecLocate == (InitRegion \/ InitBounds) /\ [][NextLocate]_vars

\* The client-side brand filter on its own: the controller (region or country
\* revision) holds a fetched shop list and the catalog, nothing is in flight,
\* and the user toggles and clears brands
InitFilter ==
    /\ sheet = SheetInit
    /\ contact = ContactInit
    /\ selectedShop = Null
    /\ variant \in {"region", "country"}
    /\ shops \in ShopLists
    /\ brands = FilterBrandIds
    /\ selectedBrands = <<>>
    /\ brandFilters = {}
    /\ selectedRegion = ""
    /\ countryFilter = IF variant = "country" THEN "TW" ELSE "all"
    /\ loading = FALSE
    /\ error = NoError
    /\ hasSearched = FALSE
    /\ mapBounds = Null
    /\ showSearchButton = FALSE
    /\ hasMovedRef = FALSE
    /\ mapReady = FALSE
    /\ userHasInteracted = FALSE
    /\ locating = FALSE
    /\ mapGeo = IF variant = "region" THEN "done" ELSE "none"
    /\ flying = FALSE
    /\ searchQuery = <<>>
    /\ geo = IF variant = "region" THEN "done" ELSE "none"
    /\ inflight = {}
    /\ brandReqs = {}
    /\ issued = 1
    /\ resultOf = 1
    /\ latestDone = 1
    /\ ev = [op |-> "loaded", arg |-> [data |-> shops]]

NextFilter ==
    \/ \E id \in FilterBrandIds : handleBrandToggle(id)
    \/ handleClearFilters

SpecFilter == InitFilter /\ [][NextFilter]_vars

\* The bounds arithmetic on its own: the region revision after its first load,
\* the map settling on probe viewports and the user searching them
NextBoundsMath ==
    \/ GeoError
    \/ \E req \in inflight, data \in Responses : LoadResolved(req, data)
    \/ \E req \in inflight : LoadRejected(req)
    \/ GestureStart
    \/ \E b \in ProbeBounds : MoveEnd(b)
    \/ SearchClick
    \/ \E req \in inflight, data \in Responses : SearchResolved(req, data)
    \/ \E req \in inflight : SearchRejected(req)

SpecBoundsMath == InitRegion /\ [][NextBoundsMath]_vars

\* The region classifier on its own: the start-up lookup of the region
\* revision reports a probe position and the first load is answered
NextClassify ==
    \/ \E pos \in ProbePositions : GeoSuccess(pos)
    \/ \E req \in inflight, data \in Responses : LoadResolved(req, data)
    \/ \E req \in inflight : LoadRejected(req)

SpecClassify == InitRegion /\ [][NextClassify]_vars

\* The two map-driven controllers with the Map's start-up geolocation and
\* fly-to; the brand filter and catalog steps are left out
NextFly ==
    \/ GeoUnsupported
    \/ \E pos \in Positions : GeoSuccess(pos)
    \/ GeoError
    \/ \E req \in inflight, data \in Responses : LoadResolved(req, data)
    \/ \E req \in inflight : LoadRejected(req)
    \/ GestureStart
    \/ \E b \in BoundsSet : MoveEnd(b)
    \/ SearchClick
    \/ \E req \in inflight, data \in Responses : SearchResolved(req, data)
    \/ \E req \in inflight : SearchRejected(req)
    \/ \E b \in BoundsSet : MapLoad(b)
    \/ \E b \in BoundsSet : MoveEndBounds(b)
    \/ SearchClickBounds
    \/ \E req \in inflight, data \in Responses : SearchResolvedBounds(req, data)
    \/ \E req \in inflight : SearchRejectedBounds(req)
    \/ \E pos \in Positions : MapGeoSuccess(pos)
    \/ MapGeoError
    \/ \E b \in BoundsSet : FlyEnd(b)
    \/ \E b \in BoundsSet : FlyEndBounds(b)

SpecFly == (InitRegion \/ InitBounds) /\ [][NextFly]_vars

-----------------------------------------------------------------------------
(* Derived notions the properties use *)

\* the request the mount effect of the region revision issues first
FirstRequestOutstanding == \E r \in inflight : r.token = 1

\* Ready of the search controller: the first search has completed.  The
\* bounds revision records it in hasSearched; the region revision has no such
\* flag, there the start-up lookup has resolved and its fetch has returned.
ControllerReady ==
    IF variant = "bounds" THEN hasSearched
    ELSE geo = "done" /\ ~FirstRequestOutstanding

\* everything a handler of HomePage can write, the request bookkeeping included
controllerVars ==
    <<shops, brands, selectedBrands, brandFilters, selectedRegion,
      countryFilter, loading, error, hasSearched, mapBounds, showSearchButton,
      inflight, brandReqs, issued>>

\* FilterState: the brand selection and the active region of each revision
filterState == <<selectedBrands, brandFilters, selectedRegion, countryFilter>>

\* the steps that are explicit filter actions of the user
UserFilterOps == {"toggle", "clear", "region", "country"}

\* the requests a step has issued
Issued == inflight' \ inflight

\* the requests a step has answered
Answered == inflight \ inflight'

\* the request loadNearbyShops sends as the first one for a centre
FirstLoad(center) ==
    Request(1, "load", "nearby",
            [lat |-> center.lat, lng |-> center.lng,
             radius_km |-> NEARBY_RADIUS_KM])

-----------------------------------------------------------------------------
(* C1: a response that arrives after the response of a later-issued fetch    *)
(* was applied is discarded, so the result set is always that of the most   *)
(* recently issued fetch among those answered.                              *)
C1_StaleResponseDiscarded == resultOf = latestDone

(* C2: the re-search affordance is never shown before the first search has  *)
(* completed, that is while the controller is Idle or AwaitingFirstResult.  *)
C2_NoAffordanceBeforeFirstSearch == showSearchButton => ControllerReady

(* C3: issuing an explicit search clears the re-search affordance in the    *)
(* same step, before the response arrives.                                  *)
C3_ClearedWhenIssued ==
    [][ev'.op = "search" /\ mapBounds # Null => ~showSearchButton']_vars

(* C4: a viewport-settle event received after the first search has completed *)
(* records the new bounds as the current bounds and sets showSearchButton.   *)
C4_SettleRecordsAndFlags ==
    [][ev'.op = "settle" /\ ControllerReady
         => mapBounds' = ev'.arg.bounds /\ showSearchButton']_vars

C4_Witness ==
    /\ ev.op = "settle"
    /\ ControllerReady
    /\ mapBounds = ev.arg.bounds
    /\ showSearchButton

C6_SettleFetchesNothing ==
    [][ev'.op = "settle"
         => UNCHANGED <<shops, loading, error, inflight, brandReqs, issued>>]_vars

C6_Witness ==
    /\ ev.op = "settle"
    /\ ControllerReady
    /\ shops # <<>>
    /\ inflight = {}

(* C7: an explicit search trigger while the current bounds are null issues   *)
(* no request and leaves every state variable of the controller unchanged.   *)
C7_NullBoundsTriggerIsNoOp ==
    [][ev'.op = "search" /\ mapBounds = Null => UNCHANGED controllerVars]_vars

C7_Witness ==
    /\ ev.op = "search"
    /\ mapBounds = Null
    /\ issued = 0

(* C8 as claimed: when an explicit search completes successfully the result  *)
(* set is exactly the shops of the response, showSearchButton is false and   *)
(* the first search has completed.                                           *)
C8_SearchCompletion ==
    [][ev'.op = "searched"
         => /\ shops' = ev'.arg.data
            /\ ~showSearchButton'
            /\ ControllerReady']_vars

(* C8 amended: the result set is exactly the shops of the response; in the   *)
(* bounds revision showSearchButton is then false and hasSearched true; in   *)
(* the region revision, which cleared the flag when the search was issued,   *)
(* the response leaves showSearchButton as it was.                           *)
C8_SearchCompletionByRevision ==
    [][ev'.op = "searched"
         => /\ shops' = ev'.arg.data
            /\ variant = "bounds" => ~showSearchButton' /\ hasSearched'
            /\ variant = "region" => showSearchButton' = showSearchButton]_vars

C8_Witness ==
    /\ ev.op = "searched"
    /\ shops = ev.arg.data
    /\ shops # <<>>

(* C9: when geolocation is denied or unavailable at start-up the first fetch *)
(* is a nearby query centred at (25.03, 121.5) with radius 10 km, and once   *)
(* it completes the first search is done and showSearchButton is false.      *)
C9_DeniedFallback ==
    [][/\ ev'.op = "geo" /\ ev'.arg.outcome \in {"denied", "unsupported"}
            => inflight' = {FirstLoad(DEFAULT_CENTER)}
       /\ ev'.op = "loaded" /\ FirstLoad(DEFAULT_CENTER) \in inflight
            => ControllerReady' /\ ~showSearchButton']_vars

(* C10: from app start, once the geolocation provider reports, exactly one   *)
(* first query is issued, centred at the device position on success and at   *)
(* the fallback coordinate otherwise, and when its response or failure       *)
(* arrives the controller leaves the loading state.                          *)
C10_FirstQuery ==
    /\ [](variant = "region"
            => /\ geo = "pending" => issued = 0 /\ loading
               /\ \A r \in inflight : r.by = "load" => r.token = 1)
    /\ [][/\ ev'.op = "geo"
               => /\ geo = "pending" /\ geo' = "done"
                  /\ loading'
                  /\ issued' = 1
                  /\ inflight' =
                       {FirstLoad(IF ev'.arg.outcome = "position"
                                  THEN ev'.arg.pos ELSE DEFAULT_CENTER)}
          /\ geo = "done" => geo' = "done"
          /\ variant = "region" /\ ev'.op \in {"loaded", "loadFailed"}
               => ~loading' /\ ControllerReady']_vars
    /\ (variant = "region" /\ geo = "pending") ~> (geo = "done" /\ issued >= 1)

C10_Witness ==
    /\ variant = "region"
    /\ ev.op \in {"loaded", "loadFailed"}
    /\ ControllerReady
    /\ ~loading

(* C11: when a shop fetch (initial load or explicit search) fails, an error  *)
(* message is set and the result set, the active region, the brand selection *)
(* and showSearchButton have the values they had before the fetch was        *)
(* issued: the failure step changes none of them, and a failure that follows *)
(* its search trigger directly finds showSearchButton as the trigger found   *)
(* it.                                                                       *)
C11_FailureLeavesStateIntact ==
    [][ev'.op \in {"loadFailed", "searchFailed"}
         => /\ error' # NoError
            /\ UNCHANGED <<shops, selectedRegion, countryFilter,
                           selectedBrands, brandFilters>>
            /\ showSearchButton' =
                 IF ev.op = "search" THEN ev.arg.shown ELSE showSearchButton]_vars

\* a step shows the user a failure: an error message appears in the sheet or
\* an alert dialog is raised
ShowsFailure ==
    \/ error' # NoError /\ error' # error
    \/ "alert" \in DOMAIN ev'.arg

(* C12: a geolocation denial or timeout never shows the user a failure; the  *)
(* only step that makes a user-facing error appear is a failed data fetch.   *)
C12_OnlyFetchFailuresShow ==
    [][ShowsFailure => ev'.op \in {"loadFailed", "searchFailed"}]_vars

(* C13: whenever the active region code changes value, by a user region      *)
(* selection or by region detection after a fetch, the selected brand set is *)
(* empty afterwards.                                                         *)
C13_RegionChangeClearsBrands ==
    [][selectedRegion' # selectedRegion => selectedBrands' = <<>>]_vars

C13_Witness ==
    /\ ev.op \in {"region", "searched"}
    /\ selectedRegion \in {"SG", "TW"}
    /\ selectedRegion \in brandReqs
    /\ brands # {}
    /\ selectedBrands = <<>>

(* C14 as claimed: the brand selection and the active region are changed     *)
(* only by explicit user filter actions: viewport settles, issuing a search  *)
(* and applying a fetch response or failure leave both unchanged.            *)
C14_OnlyUserActionsChangeFilters ==
    [][ev'.op \notin UserFilterOps => UNCHANGED filterState]_vars

(* C14 amended: viewport settles, issuing a fetch and a fetch failure leave  *)
(* the brand selection and the region unchanged; applying a successful       *)
(* nearby response in the region revision sets the region to the region      *)
(* detected at the query centre and clears the brand selection exactly when  *)
(* that changes the region; every other response leaves both unchanged.      *)
C14_FiltersChangedByUserOrDetection ==
    [][ev'.op \notin UserFilterOps
         => IF variant = "region" /\ ev'.op \in {"loaded", "searched"}
            THEN /\ \A r \in Answered :
                      selectedRegion' = detectRegion(r.q.lat, r.q.lng)
                 /\ selectedBrands' =
                      IF selectedRegion' # selectedRegion
                      THEN <<>> ELSE selectedBrands
                 /\ UNCHANGED <<brandFilters, countryFilter>>
            ELSE UNCHANGED filterState]_vars

C14_Witness ==
    /\ ev.op = "searchFailed"
    /\ variant = "region"
    /\ selectedBrands # <<>>
    /\ selectedRegion # ""

(* C15: after every successful shop fetch of the region revision (initial    *)
(* load or explicit search) the active region is detectRegion of the centre  *)
(* of that query; a failed fetch leaves the active region unchanged.         *)
C15_RegionFollowsQueryCentre ==
    [][variant = "region"
         => /\ ev'.op \in {"loaded", "searched"}
                 => /\ Answered # {}
                    /\ \A r \in Answered :
                         selectedRegion' = detectRegion(r.q.lat, r.q.lng)
            /\ ev'.op \in {"loadFailed", "searchFailed"}
                 => selectedRegion' = selectedRegion]_vars

C15_Witness ==
    /\ ev.op = "searched"
    /\ variant = "region"
    /\ mapBounds # Null
    /\ selectedRegion = "TW"
    /\ selectedRegion = detectRegion(centerLat(mapBounds), centerLng(mapBounds))

(* C16: every bounds query carries exactly the brand ids that were selected  *)
(* when the search was issued, and no brand parameter when the selection is  *)
(* empty; nearby queries carry a centre and a radius and never brand ids.    *)
C16_BrandIdsOnlyInBoundsQueries ==
    /\ [][ev'.op = "search" /\ variant = "bounds" /\ mapBounds # Null
            => /\ Issued # {}
               /\ \A r \in Issued :
                    /\ r.kind = "bounds"
                    /\ r.q.bounds = mapBounds
                    /\ r.q.brand_ids = brandFilters]_vars
    /\ [](\A r \in inflight :
            /\ r.kind = "bounds" <=> variant = "bounds"
            /\ r.kind = "nearby" => DOMAIN r.q = {"lat", "lng", "radius_km"})

C16_Witness ==
    /\ ev.op = "search"
    /\ \E r \in inflight :
         /\ r.kind = "bounds"
         /\ r.q.brand_ids # {}
         /\ r.q.brand_ids = brandFilters

\* the positions of a shop list whose shop has a brand that is selected
Matching ==
    { i \in 1..Len(shops) :
        /\ shops[i].brand_id # NoBrand
        /\ Includes(selectedBrands, shops[i].brand_id) }

(* C17: with an empty brand selection filteredShops is exactly the fetched   *)
(* shop sequence, same elements in the same order, for every shop list.      *)
C17_EmptySelectionIsIdentity ==
    Len(selectedBrands) = 0 => filteredShops = shops

C17_Witness ==
    /\ ev.op = "clear"
    /\ Len(shops) = MaxShops
    /\ \E i \in 1..Len(shops) : shops[i].brand_id = NoBrand
    /\ filteredShops = shops

(* C18: with a non-empty selection filteredShops holds only shops whose      *)
(* brand_id is in the selection; a shop with no brand_id is never in it.     *)
C18_OnlySelectedBrands ==
    Len(selectedBrands) > 0
      => \A i \in 1..Len(filteredShops) :
           /\ filteredShops[i].brand_id # NoBrand
           /\ Includes(selectedBrands, filteredShops[i].brand_id)

C18_Witness ==
    /\ ev.op = "toggle"
    /\ Len(selectedBrands) > 0
    /\ \E i \in 1..Len(shops) : shops[i].brand_id = NoBrand
    /\ filteredShops # <<>>
    /\ Len(filteredShops) < Len(shops)

(* C19: with a non-empty selection filteredShops is exactly the subsequence  *)
(* of the shops whose brand_id is present and selected, in input order: no   *)
(* matching shop is dropped, a shop of brand 0 with 0 selected included.     *)
C19_ExactSubsequence ==
    Len(selectedBrands) > 0
      => /\ Len(filteredShops) = Cardinality(Matching)
         /\ \A i \in Matching :
              \E k \in 1..Len(filteredShops) : filteredShops[k] = shops[i]
         /\ \A k \in 1..Len(filteredShops) : \A l \in 1..Len(filteredShops) :
              k < l => filteredShops[k].id < filteredShops[l].id

(* C20: detectRegion is total: for every coordinate it yields exactly one of *)
(* TW, SG, US and "", the code of a box that contains the point when it is   *)
(* not "", and "" exactly when no box contains the point.                    *)
C20_ClassifyTotal ==
    [][ev'.op = "loaded"
         => \A r \in Answered :
              /\ selectedRegion' = detectRegion(r.q.lat, r.q.lng)
              /\ selectedRegion' \in REGIONS
              /\ selectedRegion' = ""
                   <=> \A k \in 1..Len(REGION_BOXES) :
                         ~InBox(r.q.lat, r.q.lng, REGION_BOXES[k])
              /\ selectedRegion' # ""
                   => \E k \in 1..Len(REGION_BOXES) :
                        /\ REGION_BOXES[k].code = selectedRegion'
                        /\ InBox(r.q.lat, r.q.lng, REGION_BOXES[k])]_vars

C20_Witness ==
    /\ ev.op = "loaded"
    /\ selectedRegion = "SG"
    /\ "SG" \in brandReqs

\* two rectangles share no point
Disjoint(a, b) ==
    \/ a.maxLat < b.minLat \/ b.maxLat < a.minLat
    \/ a.maxLng < b.minLng \/ b.maxLng < a.minLng

(* C21: the region boxes are pairwise disjoint, so at most one box contains  *)
(* any coordinate and the region detected is the code of every box that      *)
(* contains the point, whatever the order in which the boxes are tested.     *)
C21_BoxesDisjoint ==
    /\ [](\A j \in 1..Len(REGION_BOXES) : \A k \in 1..Len(REGION_BOXES) :
            j < k => Disjoint(REGION_BOXES[j], REGION_BOXES[k]))
    /\ [][ev'.op = "loaded"
            => \A r \in Answered :
                 /\ Cardinality({k \in 1..Len(REGION_BOXES) :
                        InBox(r.q.lat, r.q.lng, REGION_BOXES[k])}) <= 1
                 /\ \A k \in 1..Len(REGION_BOXES) :
                      InBox(r.q.lat, r.q.lng, REGION_BOXES[k])
                        => selectedRegion' = REGION_BOXES[k].code]_vars

C21_Witness ==
    /\ ev.op = "loaded"
    /\ selectedRegion = "TW"
    /\ "TW" \in brandReqs
    /\ inflight = {}

(* C22: for every viewport B the centre computed for a search lies within B  *)
(* (minLat <= lat <= maxLat and minLng <= lng <= maxLng) and the radius      *)
(* computed from B is not negative.                                          *)
C22_CentreWithinBounds ==
    [][ev'.op = "search" /\ mapBounds # Null
         => /\ Issued # {}
            /\ \A r \in Issued :
                 /\ mapBounds.minLat <= r.q.lat /\ r.q.lat <= mapBounds.maxLat
                 /\ mapBounds.minLng <= r.q.lng /\ r.q.lng <= mapBounds.maxLng
            /\ radiusKm(mapBounds) >= 0]_vars

C22_Witness ==
    /\ ev.op = "search"
    /\ mapBounds # Null
    /\ mapBounds.minLat < 0 /\ mapBounds.maxLat > 0
    /\ \E r \in inflight : r.by = "search" /\ r.q.lat < 0 /\ r.q.lng < 0

(* C23: every query an explicit search issues has the radius                 *)
(* max(111 * (maxLat - minLat) / 2, 5) km, so no search request carries a    *)
(* radius below 5 km however small the viewport is.                          *)
C23_RadiusClamped ==
    [][ev'.op = "search" /\ mapBounds # Null
         => /\ Issued # {}
            /\ \A r \in Issued :
                 /\ 2 * r.q.radius_km =
                      Max(111 * (mapBounds.maxLat - mapBounds.minLat), 2 * 500)
                 /\ r.q.radius_km >= 500]_vars

C23_Witness ==
    /\ ev.op = "search"
    /\ mapBounds # Null
    /\ mapBounds.maxLat - mapBounds.minLat = 2
    /\ \E r \in inflight : r.by = "search" /\ r.q.radius_km = MIN_RADIUS_KM

\* the query of request r is the one a search of viewport b sends: the box
\* itself (bounds revision) or its centre and clamped radius (region revision)
DerivedFrom(r, b) ==
    \/ r.kind = "bounds" /\ r.q.bounds = b
    \/ r.kind = "nearby" /\ r.q = NearbyQueryOf(b)

(* C24: after the first search, when the user pans and then confirms, the    *)
(* settle sets showSearchButton, the query issued is derived from the        *)
(* viewport bounds settled last, and the confirm sets showSearchButton back  *)
(* to false.                                                                 *)
C24_PanThenConfirm ==
    [][ControllerReady
         => /\ ev'.op = "settle" => showSearchButton'
            /\ ev.op = "settle" /\ ev'.op = "search"
                 => /\ Issued # {}
                    /\ \A r \in Issued : DerivedFrom(r, ev.arg.bounds)
                    /\ ~showSearchButton']_vars

(* C25: the re-search affordance never appears because of the start-up       *)
(* fly-to: the viewport settle that ends the fly-to does not set             *)
(* showSearchButton, whatever the user did before the position arrived.      *)
C25_FlyToNeverFlags ==
    [][ev'.op = "flyEnd" => (showSearchButton' => showSearchButton)]_vars

(* C30: with Map.tsx the start-up fly-to happens only if the user has not    *)
(* interacted yet: once the user has panned, zoomed or clicked search, a     *)
(* position that arrives afterwards does not move the map.                   *)
C30_NoFlyAfterInteraction ==
    [][(/\ variant = "bounds"
        /\ ev'.op = "mapGeo"
        /\ \/ userHasInteracted
           \/ ev.op = "settle" /\ "initial" \notin DOMAIN ev.arg)
           => flying' = flying]_vars

\* mutant: the sheet lists the fetched shops, not the filtered ones
Displayed_Unfiltered == shops

\* the shops handed to the list: the sidebar of the bounds revision maps over
\* shops, the BottomSheet of the other revisions receives filteredShops
Displayed ==
    IF variant = "bounds" THEN shops ELSE filteredShops

\* the "Pan the map ... then click Search This Area" prompt of the sidebar
NoSearchYetShown ==
    /\ variant = "bounds"
    /\ ~loading /\ error = NoError /\ ~hasSearched

\* "No shops found in this area" of the sidebar, "No shops found" of the sheet
NoResultsShown ==
    /\ ~loading /\ error = NoError
    /\ variant = "bounds" => hasSearched
    /\ Len(Displayed) = 0

\* no fetched shop passes the brand filter (the bounds revision filters on
\* the server, so its fetched list is the filtered one)
ZeroMatching ==
    IF variant = "bounds" \/ Len(selectedBrands) = 0
    THEN Len(shops) = 0
    ELSE Matching = {}

(* C26: once the result of a search has been applied and no shop passes the  *)
(* brand filter, the idle UI (not loading, no error) shows the "no results"  *)
(* state and not the "no search yet" prompt; the prompt is shown only while  *)
(* hasSearched is false.                                                     *)
C26_NoResultsNotNoSearchYet ==
    /\ NoSearchYetShown => ~hasSearched
    /\ resultOf > 0 => ~NoSearchYetShown
    /\ (resultOf > 0 /\ ZeroMatching /\ ~loading /\ error = NoError)
          => NoResultsShown

C26_Witness ==
    /\ variant = "region"
    /\ ev.op = "toggle"
    /\ resultOf > 0
    /\ Len(shops) > 0
    /\ ZeroMatching
    /\ NoResultsShown

(* C27: the brand catalog is fetched at most once per region: while the      *)
(* catalog on display is that of a region, already fetched, no step issues   *)
(* a new listBrands request for that region.                                 *)
C27_CatalogFetchedOnce ==
    [][\A r \in brandReqs' \ brandReqs :
          ~(brands # {} /\ brands = BrandsOfRegion(r))]_vars

\* the members of an array
SetOf(arr) == { arr[i] : i \in 1..Len(arr) }

\* mutant: the count misses one selected brand
filterCount_OneLess == Len(selectedBrands) - 1

\* FilterPanel.filterCount
filterCount == Len(selectedBrands)

\* {filterCount > 0 && <span className="filter-badge">}
BadgeShown == filterCount > 0

\* {filterCount > 0 && <button className="clear-filters">}
ClearFiltersShown == filterCount > 0

(* C29: the count badge and the "Clear Filters (n)" control are shown if and *)
(* only if at least one brand is selected, and the n they show is the number *)
(* of selected brands.                                                       *)
C29_BadgeCountsSelection ==
    /\ BadgeShown <=> SetOf(selectedBrands) # {}
    /\ ClearFiltersShown <=> SetOf(selectedBrands) # {}
    /\ BadgeShown \/ ClearFiltersShown => filterCount = Cardinality(SetOf(selectedBrands))

C29_Witness ==
    /\ ev.op = "toggle"
    /\ BadgeShown /\ ClearFiltersShown
    /\ filterCount = 2

-----------------------------------------------------------------------------
(* FilterPanel: the brand search box. A string is a sequence of characters;  *)
(* "A" and "a" are one letter in two cases, "7" stands for a character       *)
(* without case, as a Chinese character is.                                  *)

QueryChars == {"a", "A", "b", " ", "7", "("}

RECURSIVE StringsUpTo(_)
StringsUpTo(n) ==
    IF n = 0
    THEN {<<>>}
    ELSE LET shorter == StringsUpTo(n - 1)
         IN  shorter \cup { Append(str, c) : str \in shorter, c \in QueryChars }

Queries == StringsUpTo(MaxQuery)

\* Brand.name of the catalog entries
BrandName(id) ==
    CASE id = 1 -> <<"A", "b">>
      [] id = 2 -> <<"a">>
      [] OTHER  -> <<>>

\* Brand.name_zh, the empty string where the entry has none
BrandNameZh(id) ==
    CASE id = 1 -> <<"7">>
      [] OTHER  -> <<>>

\* the region codes of the panel's REGIONS
PanelRegions == {"", "TW", "SG", "US"}

\* mutant: the strings are compared as they are
toLowerCase_AsIs(str) == str

\* String.prototype.toLowerCase
toLowerCase(str) ==
    [i \in 1..Len(str) |-> IF str[i] = "A" THEN "a" ELSE str[i]]

\* String.prototype.includes
StrIncludes(str, q) ==
    \E i \in 0..(Len(str) - Len(q)) : SubSeq(str, i + 1, i + Len(q)) = q

\* String.prototype.trim
RECURSIVE trim(_)
trim(str) ==
    IF Len(str) = 0 THEN str
    ELSE IF Head(str) = " " THEN trim(Tail(str))
    ELSE IF str[Len(str)] = " " THEN trim(SubSeq(str, 1, Len(str) - 1))
    ELSE str

\* FilterPanel.getBrandDisplayName
getBrandDisplayName(id, region) ==
    LET name == BrandName(id)
        name_zh == BrandNameZh(id)
        hasEnglish == Len(name) > 0
        hasChinese == Len(name_zh) > 0
        hasBothNames == hasEnglish /\ hasChinese /\ name # name_zh
    IN  IF region = "TW"
        THEN IF hasBothNames /\ hasChinese
             THEN name_zh \o <<" ", "(">> \o name \o <<")">>
             ELSE IF hasChinese THEN name_zh ELSE name
        ELSE IF hasBothNames /\ hasEnglish
             THEN name \o <<" ", "(">> \o name_zh \o <<")">>
             ELSE IF hasEnglish THEN name ELSE name_zh

\* FilterPanel.displayedBrands before its sort: the brands on display
displayedBrands ==
    IF Len(trim(searchQuery)) > 0
    THEN LET query == toLowerCase(searchQuery)
         IN  { id \in brands :
                 \/ StrIncludes(toLowerCase(BrandName(id)), query)
                 \/ /\ Len(BrandNameZh(id)) > 0
                    /\ StrIncludes(toLowerCase(BrandNameZh(id)), query)
                 \/ StrIncludes(toLowerCase(getBrandDisplayName(id, selectedRegion)),
                                query) }
    ELSE brands

\* onChange of the search input: setSearchQuery(e.target.value)
setSearchQuery(value) ==
    /\ variant = "region"
    /\ searchQuery' = value
    /\ Ev("query", [value |-> value])
    /\ UNCHANGED <<variant, sheet, contact, selectedShop, locating, mapGeo, flying, shops, brands,
                   selectedBrands, brandFilters, selectedRegion, countryFilter,
                   loading, error, hasSearched, mapBounds, showSearchButton,
                   hasMovedRef, mapReady, userHasInteracted, geo, inflight,
                   brandReqs, issued, resultOf, latestDone>>

\* the clear button of the search input, rendered while searchQuery is
\* not empty
SearchClearClick ==
    /\ variant = "region"
    /\ Len(searchQuery) > 0
    /\ searchQuery' = <<>>
    /\ Ev("clearQuery", Null)
    /\ UNCHANGED <<variant, sheet, contact, selectedShop, locating, mapGeo, flying, shops, brands,
                   selectedBrands, brandFilters, selectedRegion, countryFilter,
                   loading, error, hasSearched, mapBounds, showSearchButton,
                   hasMovedRef, mapReady, userHasInteracted, geo, inflight,
                   brandReqs, issued, resultOf, latestDone>>

\* The panel on its own: the region revision shows the catalog of a region
\* and the user types into the brand search box
InitPanel ==
    /\ sheet = SheetInit
    /\ contact = ContactInit
    /\ selectedShop = Null
    /\ variant = "region"
    /\ selectedRegion \in PanelRegions
    /\ brands = BrandsOfRegion(selectedRegion)
    /\ shops = <<>>
    /\ selectedBrands = <<>>
    /\ brandFilters = {}
    /\ countryFilter = "all"
    /\ loading = FALSE
    /\ error = NoError
    /\ hasSearched = FALSE
    /\ mapBounds = Null
    /\ showSearchButton = FALSE
    /\ hasMovedRef = FALSE
    /\ mapReady = FALSE
    /\ userHasInteracted = FALSE
    /\ locating = FALSE
    /\ mapGeo = "done"
    /\ flying = FALSE
    /\ searchQuery = <<>>
    /\ geo = "done"
    /\ inflight = {}
    /\ brandReqs = {}
    /\ issued = 1
    /\ resultOf = 1
    /\ latestDone = 1
    /\ ev = [op |-> "loaded", arg |-> [data |-> shops]]

NextPanel ==
    \/ \E value \in Queries : setSearchQuery(value)
    \/ SearchClearClick

SpecPanel == InitPanel /\ [][NextPanel]_vars

\* str contains q when case is ignored, character by character
ContainsIgnoringCase(str, q) ==
    \E i \in 0..(Len(str) - Len(q)) :
        \A j \in 1..Len(q) :
            str[i + j] = q[j] \/ {str[i + j], q[j]} = {"a", "A"}

\* the query is empty or consists of spaces only
Blank(q) == \A i \in 1..Len(q) : q[i] = " "

(* C28: a non-blank brand search query shows exactly the brands whose        *)
(* English name, Chinese name or display name contains the query when case   *)
(* is ignored; a blank or whitespace-only query shows every brand.           *)
C28_BrandSearch ==
    displayedBrands =
        IF Blank(searchQuery)
        THEN brands
        ELSE { id \in brands :
                 \/ ContainsIgnoringCase(BrandName(id), searchQuery)
                 \/ ContainsIgnoringCase(BrandNameZh(id), searchQuery)
                 \/ ContainsIgnoringCase(
                        getBrandDisplayName(id, selectedRegion), searchQuery) }

C28_Witness ==
    /\ ev.op = "query"
    /\ ~Blank(searchQuery)
    /\ \E i \in 1..Len(searchQuery) : searchQuery[i] = "A"
    /\ displayedBrands # {}
    /\ displayedBrands # brands

(* C31, as stated: at most one shop fetch is outstanding at any time.        *)
C31_OneFetchOutstanding ==
    Cardinality(inflight) <= 1

(* C31, amended: in the revisions that have a search control at most one     *)
(* shop fetch is outstanding; while one is outstanding loading is true and   *)
(* the control is disabled, so a search is issued only when none is.         *)
C31_OneFetchWithSearchControl ==
    variant # "country"
      => /\ Cardinality(inflight) <= 1
         /\ inflight # {} => loading
         /\ inflight # {} => ~(IF variant = "region" THEN SearchButtonEnabled
                                ELSE SearchButtonEnabledBounds)

C31_Witness ==
    /\ variant = "region"
    /\ ev.op = "search"
    /\ issued = 2
    /\ Cardinality(inflight) = 1
    /\ loading

(* C32: in the bounds revision, when a search completes (no fetch is         *)
(* outstanding and the re-search flag is false afterwards) the result put on *)
(* display answers a query made with the viewport bounds and the brand       *)
(* selection current at that moment.                                         *)
C32_ResultMatchesViewAndFilter ==
    [][(variant = "bounds" /\ ev'.op = "searched")
         => /\ inflight' = {} /\ ~showSearchButton' /\ hasSearched'
            /\ \A r \in Answered :
                  /\ r.q.bounds = mapBounds'
                  /\ r.q.brand_ids = brandFilters']_vars

(* C33, as stated: loading is true exactly while a shop fetch is outstanding *)
(* or the initial location lookup has not resolved, and every issued fetch   *)
(* eventually sets loading back to false.                                    *)
C33_LoadingWhileBusy ==
    /\ [](loading <=> (inflight # {} \/ geo = "pending"))
    /\ inflight # {} ~> ~loading

(* C33, amended: the same for the map-driven revisions (region and bounds);  *)
(* in every revision an outstanding fetch leads to loading being false.      *)
C33_LoadingWhileBusyMapDriven ==
    /\ [](variant # "country"
            => (loading <=> (inflight # {} \/ geo = "pending")))
    /\ inflight # {} ~> ~loading

C33_Witness ==
    /\ variant = "region"
    /\ ev.op = "searchFailed"
    /\ ~loading
    /\ inflight = {} /\ geo = "done"

(* C34: after any shop fetch completes successfully the error message is     *)
(* null, so an error left by an earlier failed fetch is not displayed next   *)
(* to the results of a later successful search.                              *)
C34_SuccessClearsError ==
    [][(ev'.op \in {"loaded", "searched"} /\ Answered # {})
         => error' = NoError]_vars

(* C35: when the last outstanding brand-catalog fetch is answered, the brand *)
(* list held by the controller is the catalog of the region that is active   *)
(* then, also when the region changed while an earlier request was in flight. *)
C35_BrandsOfActiveRegion ==
    [][(variant = "region" /\ ev'.op = "brands" /\ brandReqs' = {})
         => brands' = BrandsOfRegion(selectedRegion')]_vars

\* no element occurs twice in the array
NoDuplicates(arr) ==
    \A i, j \in 1..Len(arr) : arr[i] = arr[j] => i = j

(* C36: the selected brand list never holds an id twice, and toggling a      *)
(* brand twice in a row gives back the selection it started from (same       *)
(* members); the same for the brand set of the bounds revision.              *)
C36_ToggleIsInvolution ==
    /\ NoDuplicates(selectedBrands)
    /\ \A id \in BrandIds :
          /\ NoDuplicates(ToggleInSeq(selectedBrands, id))
          /\ SetOf(ToggleInSeq(ToggleInSeq(selectedBrands, id), id))
                = SetOf(selectedBrands)
          /\ ToggleInSet(ToggleInSet(brandFilters, id), id) = brandFilters

C36_Witness ==
    /\ variant = "region"
    /\ ev.op = "toggle"
    /\ Len(selectedBrands) = 1
    /\ ev.arg.id \notin SetOf(selectedBrands)

(* C37: the selected shop, when not null, is always one of the displayed     *)
(* (brand-filtered) shops: neither a new result set nor a narrower brand      *)
(* filter leaves a selection that points to a shop no longer displayed.      *)
C37_SelectionIsDisplayed ==
    selectedShop # Null
      => \E i \in 1..Len(Displayed) : Displayed[i].id = selectedShop.id

-----------------------------------------------------------------------------
(* BottomSheet (part_002): the stored sheet state, the drag of its handle    *)
(* and the tap on its header. Heights are in pixels.                         *)

SheetStates == {"collapsed", "peek", "expanded"}

\* collapsed in pixels, peek and expanded in vh
SHEET_HEIGHTS == [collapsed |-> 72, peek |-> 25, expanded |-> 55]

\* window.innerHeight
InnerHeight == 800

\* the height of each state in pixels, as handleDragEnd computes it
HeightOf(state) ==
    IF state = "collapsed"
    THEN SHEET_HEIGHTS.collapsed
    ELSE SHEET_HEIGHTS[state] * (InnerHeight \div 100)

\* the heights the sheet is rendered with when a drag starts: those of the
\* three states and heights between and above them
RenderedHeights == {72, 136, 200, 320, 440, 560}

\* dragStartY - clientY of a move
DragDeltas == {-240, -64, 64, 240}

Abs(x) == IF x < 0 THEN -x ELSE x

\* the reduce over the keys collapsed, peek, expanded:
\* distances[a] < distances[b] ? a : b
nearestState(currentHeight) ==
    LET distance(st) == Abs(currentHeight - HeightOf(st))
        Pick(a, b) == IF distance(a) < distance(b) THEN a ELSE b
    IN  Pick(Pick("collapsed", "peek"), "expanded")

\* mutant: the tap cycles through all three states
cycleState_ThreeCycle(prev) ==
    IF prev = "collapsed" THEN "peek"
    ELSE IF prev = "peek" THEN "expanded"
    ELSE "collapsed"

\* BottomSheet.cycleState: the updater passed to setSheetState
cycleState(prev) ==
    IF prev = "collapsed" THEN "peek"
    ELSE IF prev = "peek" THEN "expanded"
    ELSE "peek"

\* what the handlers of the sheet leave alone
SheetFrame ==
    UNCHANGED <<variant, selectedShop, contact, locating, mapGeo, flying,
                searchQuery, shops, brands, selectedBrands, brandFilters,
                selectedRegion, countryFilter, loading, error, hasSearched,
                mapBounds, showSearchButton, hasMovedRef, mapReady,
                userHasInteracted, geo, inflight, brandReqs, issued, resultOf,
                latestDone>>

\* handleDragStart, from touchstart or mousedown on the handle; rendered is
\* sheetRef.current.offsetHeight
handleDragStart(rendered) ==
    /\ sheet' = [sheet EXCEPT !.isDragging = TRUE,
                              !.dragStartHeight = rendered,
                              !.offsetHeight = rendered]
    /\ Ev("dragStart", [height |-> rendered])
    /\ SheetFrame

\* handleDragMove: the sheet takes the clamped height as its max-height
handleDragMove(deltaY) ==
    /\ sheet.isDragging
    /\ sheet' = [sheet EXCEPT !.offsetHeight =
                    Max(72, IF sheet.dragStartHeight + deltaY < (InnerHeight * 7) \div 10
                            THEN sheet.dragStartHeight + deltaY
                            ELSE (InnerHeight * 7) \div 10)]
    /\ Ev("dragMove", [deltaY |-> deltaY])
    /\ SheetFrame

\* handleDragEnd, from touchend or mouseup: snap to the nearest state
handleDragEnd ==
    /\ sheet.isDragging
    /\ sheet' = [sheet EXCEPT !.isDragging = FALSE,
                              !.sheetState = nearestState(sheet.offsetHeight)]
    /\ Ev("dragEnd", [height |-> sheet.offsetHeight])
    /\ SheetFrame

\* onClick of the handle, which follows the touchend or mouseup of the tap
SheetClick ==
    /\ ~sheet.isDragging
    /\ sheet' = [sheet EXCEPT !.sheetState = cycleState(sheet.sheetState)]
    /\ Ev("sheetTap", [from |-> sheet.sheetState])
    /\ SheetFrame

NextSheet ==
    \/ \E rendered \in RenderedHeights : handleDragStart(rendered)
    \/ \E deltaY \in DragDeltas : handleDragMove(deltaY)
    \/ handleDragEnd
    \/ SheetClick

\* The sheet on its own, over a page that holds a fetched shop list
SpecSheet == InitFilter /\ [][NextSheet]_vars

-----------------------------------------------------------------------------
(* ContactPage: the feedback form. Text fields are strings as in the brand   *)
(* search; submitFeedback is a request that resolves or rejects.             *)

\* what the user can enter in each field
FieldValues(field) ==
    CASE field = "message" -> {<<>>, <<" ">>, <<"a">>, <<" ", "a">>}
      [] field = "type"    -> {"suggestion", "bug"}
      [] OTHER             -> {<<>>, <<"a">>}

\* what the handlers of the page leave alone
ContactFrame ==
    UNCHANGED <<variant, selectedShop, sheet, locating, mapGeo, flying,
                searchQuery, shops, brands, selectedBrands, brandFilters,
                selectedRegion, countryFilter, loading, error, hasSearched,
                mapBounds, showSearchButton, hasMovedRef, mapReady,
                userHasInteracted, geo, inflight, brandReqs, issued, resultOf,
                latestDone>>

\* ContactPage.handleChange: setFormData(prev => ({ ...prev, [name]: value }))
handleChange(name, value) ==
    /\ contact' = [contact EXCEPT !.formData[name] = value]
    /\ Ev("change", [name |-> name])
    /\ ContactFrame

\* mutant: the submit button is never disabled
SubmitEnabled_Always == TRUE

\* the submit button: disabled={status === 'submitting'}
SubmitEnabled == contact.status # "submitting"

\* mutant: only the empty message is refused
handleSubmit_NoTrim ==
    IF Len(contact.formData.message) = 0
    THEN /\ UNCHANGED contact
         /\ Ev("submit", [sent |-> FALSE])
    ELSE /\ contact' = [contact EXCEPT
                          !.status = "submitting",
                          !.inflight = Append(@, contact.formData)]
         /\ Ev("submit", [sent |-> TRUE])

\* ContactPage.handleSubmit up to its await
handleSubmit ==
    IF Len(trim(contact.formData.message)) = 0
    THEN /\ UNCHANGED contact
         /\ Ev("submit", [sent |-> FALSE])
    ELSE /\ contact' = [contact EXCEPT
                          !.status = "submitting",
                          !.inflight = Append(@, contact.formData)]
         /\ Ev("submit", [sent |-> TRUE])

\* the form is submitted through its enabled submit button
SubmitClick ==
    /\ SubmitEnabled
    /\ handleSubmit
    /\ ContactFrame

\* the sequence without its i-th element
RemoveAt(seq, i) == SubSeq(seq, 1, i - 1) \o SubSeq(seq, i + 1, Len(seq))

\* handleSubmit after its await: submitFeedback resolved
FeedbackResolved(i) ==
    /\ i \in 1..Len(contact.inflight)
    /\ contact' = [status |-> "success",
                   formData |-> FormDefaults,
                   inflight |-> RemoveAt(contact.inflight, i)]
    /\ Ev("feedbackSent", Null)
    /\ ContactFrame

\* handleSubmit after its await: submitFeedback rejected
FeedbackRejected(i) ==
    /\ i \in 1..Len(contact.inflight)
    /\ contact' = [contact EXCEPT
                    !.status = "error",
                    !.inflight = RemoveAt(contact.inflight, i)]
    /\ Ev("feedbackFailed", Null)
    /\ ContactFrame

NextContact ==
    \/ \E name \in DOMAIN FormDefaults : \E value \in FieldValues(name) :
          handleChange(name, value)
    \/ SubmitClick
    \/ \E i \in 1..Len(contact.inflight) : FeedbackResolved(i)
    \/ \E i \in 1..Len(contact.inflight) : FeedbackRejected(i)

\* The contact page on its own; the variables of HomePage keep their initial
\* values
SpecContact == InitBounds /\ [][NextContact]_vars

(* C39: the status of the feedback form follows idle -> submitting ->        *)
(* success | error (and from success or error to submitting again); on       *)
(* success the fields are reset to their defaults, on error the entered data *)
(* is kept, and while the status is submitting no second submission is       *)
(* issued.                                                                   *)
C39_FeedbackStatus ==
    /\ [](contact.status \in {"idle", "submitting", "success", "error"} /\ Len(contact.inflight) <= 1)
    /\ [][contact'.status # contact.status
            => \/ contact.status # "submitting" /\ contact'.status = "submitting"
               \/ /\ contact.status = "submitting"
                  /\ contact'.status \in {"success", "error"}]_vars
    /\ [][ev'.op = "feedbackSent"
            => contact'.status = "success" /\ contact'.formData = FormDefaults]_vars
    /\ [][ev'.op = "feedbackFailed"
            => /\ contact'.status = "error"
               /\ contact'.formData = contact.formData]_vars
    /\ [][contact.status = "submitting"
            => Len(contact'.inflight) <= Len(contact.inflight)]_vars

C39_Witness ==
    /\ ev.op = "feedbackFailed"
    /\ contact.status = "error"
    /\ contact.formData.message = <<" ", "a">>
    /\ contact.formData.type = "bug"

(* C40: submitting the form with an empty or whitespace-only message sends   *)
(* no request and leaves the status and the form data unchanged.             *)
C40_BlankMessageIsNoOp ==
    [][(ev'.op = "submit" /\ Blank(contact.formData.message))
         => /\ contact'.inflight = contact.inflight
            /\ contact'.status = contact.status
            /\ contact'.formData = contact.formData]_vars

C40_Witness ==
    /\ ev.op = "submit"
    /\ ~ev.arg.sent
    /\ contact.formData.message = <<" ">>
    /\ contact.status = "success"
    /\ contact.inflight = <<>>

====
